---------------------------- MODULE Spec2Model ----------------------------
(***************************************************************************)
(* Verification model of the obsidian-mindmap plugin: the outline parser   *)
(* (src/src/settings.ts, parser part), the process-wide collapse-state     *)
(* store, and the MindMapRenderer (src/src/renderer.ts): parse on load,    *)
(* collapse toggles, expandAll / collapseAll, and what a render draws;     *)
(* zoom, pan, pinch and fullscreen (scale and translation as exact         *)
(* quotients [n, d]), the fit of centerTree, the width of a label          *)
(* (calculateTextWidth, in hundredths of a pixel) and the note panel       *)
(* width field of the settings tab.                                        *)
(*                                                                         *)
(* Texts are sequences of one-character strings; a source text contains    *)
(* "\n" characters and is split into lines as String.split does.           *)
(* A tree is a record [root, nodes]: nodes is the sequence of node records *)
(* in creation order, each with the index of its parent; the children of a *)
(* node are the nodes naming it as parent, in creation (= push) order.     *)
(* root = 0 stands for null.                                               *)
(***************************************************************************)
EXTENDS Integers, Sequences, FiniteSets, TLC

VARIABLES
    store,       \* collapsedStateMap: id -> BOOLEAN (a function, DOMAIN = keys)
    alive,       \* alive[i]: instance i has been constructed
    loaded,      \* loaded[i]: onload() (render) has run for instance i
    source,      \* this.source
    root,        \* this.root (a tree, NullTree for null)
    renderMode,  \* this.renderMode
    view,        \* what the last render / refresh of instance i drew
    parsed,      \* result of the exported parseMarkdownList on the input text
    parsedDone,  \* the exported parser has been applied to the input text
    fresh,       \* fresh[i]: no store write happened since instance i parsed
    toggles,     \* history: the toggles that are the latest store write of their id
    steps,       \* number of user operations performed so far
    transform,   \* transform[i]: the zoom, pan and fullscreen fields of instance i
    fit,         \* history: the input of the last centerTree of instance i, while
                 \* scale and translation are still the ones it computed
    refreshed,   \* history: number of refreshes of instance i, and scale and
                 \* translation just before the last one
    settings,    \* the plugin settings (shared by all instances)
    entered,     \* history: the last text typed into the note panel width field
    measured     \* label text, depth and result of the last calculateTextWidth

\* The fields that exist per document: store, instances, trees, drawings.
treeVars == <<store, alive, loaded, source, root, renderMode, view, parsed,
              parsedDone, fresh, toggles>>

\* The zoom and pan state of the instances.
viewVars == <<transform, fit, refreshed>>

\* The settings tab and the text measurement.
unitVars == <<settings, entered, measured>>

vars == <<store, alive, loaded, source, root, renderMode, view, parsed,
          parsedDone, fresh, toggles, steps, transform, fit, refreshed,
          settings, entered, measured>>

---------------------------------------------------------------------------
(* Bounds *)

\* Maximum number of lines of an input text in the parser specification.
MaxLines == 3

\* Maximum number of user operations in the interactive specification.
MaxSteps == 4

\* Maximum number of user operations in the view specification.
MaxViewSteps == 3

\* The wheel, gesture and touch events happen among the first MaxGestures
\* operations of the view specification.
MaxGestures == 2

\* Maximum number of characters of a measured label text.
MaxLabelLen == 4

---------------------------------------------------------------------------
(* Characters and JavaScript string primitives *)

\* The whitespace characters of the model (JavaScript \s and String.trim).
WS == {" ", "\t"}

Min(a, b) == IF a < b THEN a ELSE b

\* A sequence of one-character strings as a string.
RECURSIVE Str(_)
Str(s) == IF s = <<>> THEN "" ELSE Head(s) \o Str(Tail(s))

\* Number of leading characters of s that belong to the set cs.
RECURSIVE RunLen(_, _)
RunLen(s, cs) ==
    IF s = <<>> \/ Head(s) \notin cs THEN 0 ELSE 1 + RunLen(Tail(s), cs)

\* s without its first n characters.
Drop(s, n) == SubSeq(s, n + 1, Len(s))

TrimLeft(s) == Drop(s, RunLen(s, WS))

RECURSIVE TrimRight(_)
TrimRight(s) ==
    IF s = <<>> \/ s[Len(s)] \notin WS THEN s
    ELSE TrimRight(SubSeq(s, 1, Len(s) - 1))

\* String.prototype.trim
Trim(s) == TrimRight(TrimLeft(s))

\* String.prototype.split('\n'): always at least one piece.
RECURSIVE Split(_)
Split(s) ==
    LET n == RunLen(s, {c \in {s[i] : i \in 1..Len(s)} : c # "\n"})
    IN  IF n = Len(s) THEN <<s>>
        ELSE <<SubSeq(s, 1, n)>> \o Split(Drop(s, n + 1))

\* Array.prototype.join(sep) on an array of texts.
RECURSIVE Join(_, _)
Join(ls, sep) ==
    IF ls = <<>> THEN <<>>
    ELSE IF Len(ls) = 1 THEN ls[1]
    ELSE ls[1] \o <<sep>> \o Join(Tail(ls), sep)

\* text.replace(/\s+/g, '_'): every maximal run of whitespace becomes one '_'.
RECURSIVE ReplaceWsRuns(_)
ReplaceWsRuns(s) ==
    IF s = <<>> THEN <<>>
    ELSE IF Head(s) \in WS THEN <<"_">> \o ReplaceWsRuns(TrimLeft(s))
    ELSE <<Head(s)>> \o ReplaceWsRuns(Tail(s))

---------------------------------------------------------------------------
(* Trees *)

NullTree == [root |-> 0, nodes |-> <<>>]

\* A freshly created MindMapNode (children: [] is the absence of nodes naming
\* it as parent; note is undefined until flushNote sets it).
NewNode(id, text, collapsed, parent, line) ==
    [id |-> id, text |-> text, collapsed |-> collapsed, parent |-> parent,
     hasNote |-> FALSE, note |-> <<>>, line |-> line]

\* node.children of node n of the node array ns, in push order.
Children(ns, n) ==
    SelectSeq([k \in 1..Len(ns) |-> k], LAMBDA k : ns[k].parent = n)

\* collapsedStateMap.get(id) || false
GetOrFalse(map, id) == IF id \in DOMAIN map THEN map[id] ELSE FALSE


---------------------------------------------------------------------------
(* The outline parser of src/src/settings.ts (exported parser module).     *)
(* Every operator takes the collapse-state map it reads as a parameter.    *)

\* Mutant: the test accepts what the heading scanner accepts, /^\s*#{2,}/.
IsMultiLevelHeadingLine_NoSpace(line) ==
    RunLen(TrimLeft(line), {"#"}) >= 2

\* /^\s*#{2,}\s/.test(line)
IsMultiLevelHeadingLine(line) ==
    LET rest == TrimLeft(line)
        k    == RunLen(rest, {"#"})
    IN  k >= 2 /\ Len(rest) > k /\ rest[k + 1] \in WS

\* /^\s*[-*]\s/.test(line)
IsListItemLine(line) ==
    LET rest == TrimLeft(line)
    IN  Len(rest) >= 2 /\ rest[1] \in {"-", "*"} /\ rest[2] \in WS

\* /^\s*#+\s/.test(line)
IsHeadingLine(line) ==
    LET rest == TrimLeft(line)
        k    == RunLen(rest, {"#"})
    IN  k >= 1 /\ Len(rest) > k /\ rest[k + 1] \in WS

\* Number of characters of the text that enter an id: text.substring(0, 20).
IdTextLen == 20

\* generateStableId of parseHeadingsMode
parseHeadingsMode_generateStableId(text, level, index) ==
    "heading-" \o ToString(level) \o "-" \o ToString(index) \o "-"
        \o Str(ReplaceWsRuns(SubSeq(text, 1, Min(IdTextLen, Len(text)))))

\* The initial value of nodeIndex in parseHeadingsMode.
parseHeadingsMode_nodeIndex == 0

\* flushNote of parseHeadingsMode, on the parser state st.
flushNote(st) ==
    IF st.currentNode # 0 /\ Len(st.noteLines) > 0
    THEN [st EXCEPT !.nodes[st.currentNode].hasNote = TRUE,
                    !.nodes[st.currentNode].note = Trim(Join(st.noteLines, "\n")),
                    !.noteLines = <<>>]
    ELSE st

\* Mutant: the loop pops only the entries of strictly larger level.
RECURSIVE PopLevels_Strict(_, _)
PopLevels_Strict(stack, level) ==
    IF Len(stack) > 0 /\ stack[Len(stack)].level > level
    THEN PopLevels_Strict(SubSeq(stack, 1, Len(stack) - 1), level)
    ELSE stack

\* while (stack.length > 0 && stack[stack.length - 1].level >= level) stack.pop()
RECURSIVE PopLevels(_, _)
PopLevels(stack, level) ==
    IF Len(stack) > 0 /\ stack[Len(stack)].level >= level
    THEN PopLevels(SubSeq(stack, 1, Len(stack) - 1), level)
    ELSE stack

\* One iteration of the loop of parseHeadingsMode, on line number i.
HeadingsStep(st, line, i, map) ==
    LET trimmed == Trim(line)
    IN  IF trimmed # <<>> /\ trimmed[1] = "#"      \* /^(#+)\s*(.*)$/ matches
        THEN LET f        == flushNote(st)
                 level    == RunLen(trimmed, {"#"})
                 nodeText == Trim(Drop(trimmed, level))
                 nodeId   == parseHeadingsMode_generateStableId(nodeText, level, f.nodeIndex)
                 new      == Len(f.nodes) + 1
                 stack    == PopLevels(f.stack, level)
                 parent   == IF f.root = 0 THEN 0
                             ELSE IF Len(stack) > 0 THEN stack[Len(stack)].node
                             ELSE f.root
                 newNode  == NewNode(nodeId, nodeText, GetOrFalse(map, nodeId), parent, i)
             IN  IF f.root = 0
                 THEN [f EXCEPT !.nodes = Append(@, newNode),
                                !.nodeIndex = @ + 1,
                                !.root = new,
                                !.stack = Append(@, [node |-> new, level |-> level]),
                                !.currentNode = new]
                 ELSE [f EXCEPT !.nodes = Append(@, newNode),
                                !.nodeIndex = @ + 1,
                                !.stack = Append(stack, [node |-> new, level |-> level]),
                                !.currentNode = new]
        ELSE IF trimmed # <<>>
        THEN [st EXCEPT !.noteLines = Append(@, trimmed)]
        ELSE st

RECURSIVE HeadingsLoop(_, _, _, _)
HeadingsLoop(st, lines, i, map) ==
    IF i > Len(lines) THEN st
    ELSE HeadingsLoop(HeadingsStep(st, lines[i], i, map), lines, i + 1, map)

parseHeadingsMode(lines, map) ==
    LET st0 == [nodes |-> <<>>, stack |-> <<>>, root |-> 0, currentNode |-> 0,
                noteLines |-> <<>>, nodeIndex |-> parseHeadingsMode_nodeIndex]
        st  == flushNote(HeadingsLoop(st0, lines, 1, map))
    IN  IF st.root = 0 THEN NullTree ELSE [root |-> st.root, nodes |-> st.nodes]

\* The default title of the synthetic root of parseListMode.
DefaultRootTitle == <<"R", "o", "o", "t">>

\* Mutant: the scan goes on past lines that do not start with '#' until it
\* finds a title.
RECURSIVE TitleScan_AnyLine(_, _)
TitleScan_AnyLine(lines, i) ==
    IF i > Len(lines)
    THEN [rootTitle |-> DefaultRootTitle, startIndex |-> 0]
    ELSE LET trimmed == Trim(lines[i])
         IN  IF trimmed # <<>> /\ trimmed[1] = "#"
             THEN [rootTitle |-> Trim(Drop(trimmed, RunLen(trimmed, {"#"}))),
                   startIndex |-> i]
             ELSE TitleScan_AnyLine(lines, i + 1)

\* The title scan of parseListMode: only the first non-blank line is looked
\* at; a line starting with '#' gives the title and the start index.
\* (trimmed.replace(/^#+\s*/, '').trim(); startIndex is 0-based, so the
\* first line parsed as a bullet is line startIndex + 1.)
RECURSIVE TitleScan(_, _)
TitleScan(lines, i) ==
    IF i > Len(lines)
    THEN [rootTitle |-> DefaultRootTitle, startIndex |-> 0]
    ELSE LET trimmed == Trim(lines[i])
         IN  IF trimmed = <<>> THEN TitleScan(lines, i + 1)
             ELSE IF trimmed[1] = "#"
             THEN [rootTitle |-> Trim(Drop(trimmed, RunLen(trimmed, {"#"}))),
                   startIndex |-> i]
             ELSE [rootTitle |-> DefaultRootTitle, startIndex |-> 0]

\* Mutant: the id leaves the sequence index out.
parseListMode_generateStableId_NoIndex(text, indent, index) ==
    "list-" \o ToString(indent) \o "-"
        \o Str(ReplaceWsRuns(SubSeq(text, 1, Min(IdTextLen, Len(text)))))

\* generateStableId of parseListMode
parseListMode_generateStableId(text, indent, index) ==
    "list-" \o ToString(indent) \o "-" \o ToString(index) \o "-"
        \o Str(ReplaceWsRuns(SubSeq(text, 1, Min(IdTextLen, Len(text)))))

\* The initial value of nodeIndex in parseListMode.
parseListMode_nodeIndex == 0

\* Width of a tab in getIndentWidth.
TabWidth == 4

\* getIndentWidth of parseListMode
RECURSIVE getIndentWidth(_)
getIndentWidth(line) ==
    IF line = <<>> THEN 0
    ELSE IF Head(line) = " " THEN 1 + getIndentWidth(Tail(line))
    ELSE IF Head(line) = "\t" THEN TabWidth + getIndentWidth(Tail(line))
    ELSE 0

\* trimmed.replace(/^[-*]\s*/, '').trim()
StripBullet(trimmed) ==
    IF trimmed # <<>> /\ trimmed[1] \in {"-", "*"}
    THEN Trim(Tail(trimmed))
    ELSE Trim(trimmed)

\* Mutant: the loop pops only the entries of strictly larger indent.
RECURSIVE PopIndents_Strict(_, _)
PopIndents_Strict(stack, indent) ==
    IF Len(stack) > 1 /\ stack[Len(stack)].indent > indent
    THEN PopIndents_Strict(SubSeq(stack, 1, Len(stack) - 1), indent)
    ELSE stack

\* while (stack.length > 1 && stack[stack.length - 1].indent >= indent) stack.pop()
RECURSIVE PopIndents(_, _)
PopIndents(stack, indent) ==
    IF Len(stack) > 1 /\ stack[Len(stack)].indent >= indent
    THEN PopIndents(SubSeq(stack, 1, Len(stack) - 1), indent)
    ELSE stack

\* One iteration of the main loop of parseListMode, on line number i.
ListStep(st, line, i, map) ==
    LET trimmed == Trim(line)
    IN  IF trimmed = <<>> THEN st
        ELSE IF trimmed[1] = "#" THEN st
        ELSE LET indent   == getIndentWidth(line)
                 nodeText == StripBullet(trimmed)
                 nodeId   == parseListMode_generateStableId(nodeText, indent, st.nodeIndex)
                 new      == Len(st.nodes) + 1
                 stack    == PopIndents(st.stack, indent)
                 parent   == stack[Len(stack)].node
                 newNode  == NewNode(nodeId, nodeText, GetOrFalse(map, nodeId), parent, i)
             IN  [st EXCEPT !.nodes = Append(@, newNode),
                            !.nodeIndex = @ + 1,
                            !.stack = Append(stack, [node |-> new,
                                                     level |-> Len(stack) - 1,
                                                     indent |-> indent])]

RECURSIVE ListLoop(_, _, _, _)
ListLoop(st, lines, i, map) ==
    IF i > Len(lines) THEN st
    ELSE ListLoop(ListStep(st, lines[i], i, map), lines, i + 1, map)

\* The test that decides the root elision of parseListMode.
ElideRoot(nodes, rootTitle) ==
    Len(Children(nodes, 1)) = 1 /\ rootTitle = DefaultRootTitle

parseListMode(lines, map) ==
    LET t    == TitleScan(lines, 1)
        rt   == NewNode("root", t.rootTitle, GetOrFalse(map, "root"), 0, 0)
        st0  == [nodes |-> <<rt>>,
                 stack |-> <<[node |-> 1, level |-> -1, indent |-> -1]>>,
                 nodeIndex |-> parseListMode_nodeIndex]
        st   == ListLoop(st0, lines, t.startIndex + 1, map)
    IN  IF ElideRoot(st.nodes, t.rootTitle)
        THEN [root |-> Children(st.nodes, 1)[1], nodes |-> st.nodes]
        ELSE [root |-> 1, nodes |-> st.nodes]

\* The parse mode parseMarkdownList selects for the lines.
SelectMode(lines) ==
    LET hasMultiLevelHeadings == \E i \in 1..Len(lines) : IsMultiLevelHeadingLine(lines[i])
        hasListItems == \E i \in 1..Len(lines) : IsListItemLine(lines[i])
        hasHeadings  == \E i \in 1..Len(lines) : IsHeadingLine(lines[i])
    IN  IF hasMultiLevelHeadings THEN "headings"
        ELSE IF hasHeadings /\ ~hasListItems THEN "headings"
        ELSE "list"

parseMarkdownList(text, map) ==
    LET lines == Split(text)
    IN  IF Len(lines) = 0 THEN NullTree
        ELSE IF SelectMode(lines) = "headings" THEN parseHeadingsMode(lines, map)
        ELSE parseListMode(lines, map)

---------------------------------------------------------------------------
(* MindMapRenderer: the private parser of src/src/renderer.ts (parseMarkdownList, *)
(* parseHeadingsMode, parseListMode), a separate copy of the same code; the *)
(* map parameter is the result of getCollapsedStateMap().                 *)

\* /^\s*#{2,}\s/.test(line)
MindMapRenderer_IsMultiLevelHeadingLine(line) ==
    LET rest == TrimLeft(line)
        k    == RunLen(rest, {"#"})
    IN  k >= 2 /\ Len(rest) > k /\ rest[k + 1] \in WS

\* /^\s*[-*]\s/.test(line)
MindMapRenderer_IsListItemLine(line) ==
    LET rest == TrimLeft(line)
    IN  Len(rest) >= 2 /\ rest[1] \in {"-", "*"} /\ rest[2] \in WS

\* /^\s*#+\s/.test(line)
MindMapRenderer_IsHeadingLine(line) ==
    LET rest == TrimLeft(line)
        k    == RunLen(rest, {"#"})
    IN  k >= 1 /\ Len(rest) > k /\ rest[k + 1] \in WS

\* generateStableId of MindMapRenderer_parseHeadingsMode
MindMapRenderer_parseHeadingsMode_generateStableId(text, level, index) ==
    "heading-" \o ToString(level) \o "-" \o ToString(index) \o "-"
        \o Str(ReplaceWsRuns(SubSeq(text, 1, Min(IdTextLen, Len(text)))))

\* Mutant: the counter is shared by all parses and goes on counting.
MindMapRenderer_parseHeadingsMode_nodeIndex_Shared == steps

\* The initial value of nodeIndex in MindMapRenderer_parseHeadingsMode.
MindMapRenderer_parseHeadingsMode_nodeIndex == 0

\* MindMapRenderer_flushNote of MindMapRenderer_parseHeadingsMode, on the parser state st.
MindMapRenderer_flushNote(st) ==
    IF st.currentNode # 0 /\ Len(st.noteLines) > 0
    THEN [st EXCEPT !.nodes[st.currentNode].hasNote = TRUE,
                    !.nodes[st.currentNode].note = Trim(Join(st.noteLines, "\n")),
                    !.noteLines = <<>>]
    ELSE st

\* while (stack.length > 0 && stack[stack.length - 1].level >= level) stack.pop()
RECURSIVE MindMapRenderer_PopLevels(_, _)
MindMapRenderer_PopLevels(stack, level) ==
    IF Len(stack) > 0 /\ stack[Len(stack)].level >= level
    THEN MindMapRenderer_PopLevels(SubSeq(stack, 1, Len(stack) - 1), level)
    ELSE stack

\* One iteration of the loop of MindMapRenderer_parseHeadingsMode, on line number i.
MindMapRenderer_HeadingsStep(st, line, i, map) ==
    LET trimmed == Trim(line)
    IN  IF trimmed # <<>> /\ trimmed[1] = "#"      \* /^(#+)\s*(.*)$/ matches
        THEN LET f        == MindMapRenderer_flushNote(st)
                 level    == RunLen(trimmed, {"#"})
                 nodeText == Trim(Drop(trimmed, level))
                 nodeId   == MindMapRenderer_parseHeadingsMode_generateStableId(nodeText, level, f.nodeIndex)
                 new      == Len(f.nodes) + 1
                 stack    == MindMapRenderer_PopLevels(f.stack, level)
                 parent   == IF f.root = 0 THEN 0
                             ELSE IF Len(stack) > 0 THEN stack[Len(stack)].node
                             ELSE f.root
                 newNode  == NewNode(nodeId, nodeText, GetOrFalse(map, nodeId), parent, i)
             IN  IF f.root = 0
                 THEN [f EXCEPT !.nodes = Append(@, newNode),
                                !.nodeIndex = @ + 1,
                                !.root = new,
                                !.stack = Append(@, [node |-> new, level |-> level]),
                                !.currentNode = new]
                 ELSE [f EXCEPT !.nodes = Append(@, newNode),
                                !.nodeIndex = @ + 1,
                                !.stack = Append(stack, [node |-> new, level |-> level]),
                                !.currentNode = new]
        ELSE IF trimmed # <<>>
        THEN [st EXCEPT !.noteLines = Append(@, trimmed)]
        ELSE st

RECURSIVE MindMapRenderer_HeadingsLoop(_, _, _, _)
MindMapRenderer_HeadingsLoop(st, lines, i, map) ==
    IF i > Len(lines) THEN st
    ELSE MindMapRenderer_HeadingsLoop(MindMapRenderer_HeadingsStep(st, lines[i], i, map), lines, i + 1, map)

MindMapRenderer_parseHeadingsMode(lines, map) ==
    LET st0 == [nodes |-> <<>>, stack |-> <<>>, root |-> 0, currentNode |-> 0,
                noteLines |-> <<>>, nodeIndex |-> MindMapRenderer_parseHeadingsMode_nodeIndex]
        st  == MindMapRenderer_flushNote(MindMapRenderer_HeadingsLoop(st0, lines, 1, map))
    IN  IF st.root = 0 THEN NullTree ELSE [root |-> st.root, nodes |-> st.nodes]

\* The title scan of MindMapRenderer_parseListMode: only the first non-blank line is looked
\* at; a line starting with '#' gives the title and the start index.
\* (trimmed.replace(/^#+\s*/, '').trim(); startIndex is 0-based, so the
\* first line parsed as a bullet is line startIndex + 1.)
RECURSIVE MindMapRenderer_TitleScan(_, _)
MindMapRenderer_TitleScan(lines, i) ==
    IF i > Len(lines)
    THEN [rootTitle |-> DefaultRootTitle, startIndex |-> 0]
    ELSE LET trimmed == Trim(lines[i])
         IN  IF trimmed = <<>> THEN MindMapRenderer_TitleScan(lines, i + 1)
             ELSE IF trimmed[1] = "#"
             THEN [rootTitle |-> Trim(Drop(trimmed, RunLen(trimmed, {"#"}))),
                   startIndex |-> i]
             ELSE [rootTitle |-> DefaultRootTitle, startIndex |-> 0]

\* generateStableId of MindMapRenderer_parseListMode
MindMapRenderer_parseListMode_generateStableId(text, indent, index) ==
    "list-" \o ToString(indent) \o "-" \o ToString(index) \o "-"
        \o Str(ReplaceWsRuns(SubSeq(text, 1, Min(IdTextLen, Len(text)))))

\* Mutant: the counter is shared by all parses and goes on counting.
MindMapRenderer_parseListMode_nodeIndex_Shared == steps

\* The initial value of nodeIndex in MindMapRenderer_parseListMode.
MindMapRenderer_parseListMode_nodeIndex == 0

\* MindMapRenderer_getIndentWidth of MindMapRenderer_parseListMode
RECURSIVE MindMapRenderer_getIndentWidth(_)
MindMapRenderer_getIndentWidth(line) ==
    IF line = <<>> THEN 0
    ELSE IF Head(line) = " " THEN 1 + MindMapRenderer_getIndentWidth(Tail(line))
    ELSE IF Head(line) = "\t" THEN TabWidth + MindMapRenderer_getIndentWidth(Tail(line))
    ELSE 0

\* trimmed.replace(/^[-*]\s*/, '').trim()
MindMapRenderer_StripBullet(trimmed) ==
    IF trimmed # <<>> /\ trimmed[1] \in {"-", "*"}
    THEN Trim(Tail(trimmed))
    ELSE Trim(trimmed)

\* while (stack.length > 1 && stack[stack.length - 1].indent >= indent) stack.pop()
RECURSIVE MindMapRenderer_PopIndents(_, _)
MindMapRenderer_PopIndents(stack, indent) ==
    IF Len(stack) > 1 /\ stack[Len(stack)].indent >= indent
    THEN MindMapRenderer_PopIndents(SubSeq(stack, 1, Len(stack) - 1), indent)
    ELSE stack

\* One iteration of the main loop of MindMapRenderer_parseListMode, on line number i.
MindMapRenderer_ListStep(st, line, i, map) ==
    LET trimmed == Trim(line)
    IN  IF trimmed = <<>> THEN st
        ELSE IF trimmed[1] = "#" THEN st
        ELSE LET indent   == MindMapRenderer_getIndentWidth(line)
                 nodeText == MindMapRenderer_StripBullet(trimmed)
                 nodeId   == MindMapRenderer_parseListMode_generateStableId(nodeText, indent, st.nodeIndex)
                 new      == Len(st.nodes) + 1
                 stack    == MindMapRenderer_PopIndents(st.stack, indent)
                 parent   == stack[Len(stack)].node
                 newNode  == NewNode(nodeId, nodeText, GetOrFalse(map, nodeId), parent, i)
             IN  [st EXCEPT !.nodes = Append(@, newNode),
                            !.nodeIndex = @ + 1,
                            !.stack = Append(stack, [node |-> new,
                                                     level |-> Len(stack) - 1,
                                                     indent |-> indent])]

RECURSIVE MindMapRenderer_ListLoop(_, _, _, _)
MindMapRenderer_ListLoop(st, lines, i, map) ==
    IF i > Len(lines) THEN st
    ELSE MindMapRenderer_ListLoop(MindMapRenderer_ListStep(st, lines[i], i, map), lines, i + 1, map)

\* The test that decides the root elision of MindMapRenderer_parseListMode.
MindMapRenderer_ElideRoot(nodes, rootTitle) ==
    Len(Children(nodes, 1)) = 1 /\ rootTitle = DefaultRootTitle

MindMapRenderer_parseListMode(lines, map) ==
    LET t    == MindMapRenderer_TitleScan(lines, 1)
        rt   == NewNode("root", t.rootTitle, GetOrFalse(map, "root"), 0, 0)
        st0  == [nodes |-> <<rt>>,
                 stack |-> <<[node |-> 1, level |-> -1, indent |-> -1]>>,
                 nodeIndex |-> MindMapRenderer_parseListMode_nodeIndex]
        st   == MindMapRenderer_ListLoop(st0, lines, t.startIndex + 1, map)
    IN  IF MindMapRenderer_ElideRoot(st.nodes, t.rootTitle)
        THEN [root |-> Children(st.nodes, 1)[1], nodes |-> st.nodes]
        ELSE [root |-> 1, nodes |-> st.nodes]

\* The parse mode MindMapRenderer_parseMarkdownList selects for the lines.
MindMapRenderer_SelectMode(lines) ==
    LET hasMultiLevelHeadings == \E i \in 1..Len(lines) : MindMapRenderer_IsMultiLevelHeadingLine(lines[i])
        hasListItems == \E i \in 1..Len(lines) : MindMapRenderer_IsListItemLine(lines[i])
        hasHeadings  == \E i \in 1..Len(lines) : MindMapRenderer_IsHeadingLine(lines[i])
    IN  IF hasMultiLevelHeadings THEN "headings"
        ELSE IF hasHeadings /\ ~hasListItems THEN "headings"
        ELSE "list"

MindMapRenderer_parseMarkdownList(text, map) ==
    LET lines == Split(text)
    IN  IF Len(lines) = 0 THEN NullTree
        ELSE IF MindMapRenderer_SelectMode(lines) = "headings" THEN MindMapRenderer_parseHeadingsMode(lines, map)
        ELSE MindMapRenderer_parseListMode(lines, map)

(* MindMapRenderer: end of the private parser *)

---------------------------------------------------------------------------
(* Text measurement: calculateTextWidth *)

\* The characters in the ranges 4e00-9fff, 3000-303f and ff00-ffef,
\* among the characters of the label texts used here.  A character outside
\* ASCII is written as its code point: "U+4E2D" "U+6587" is the two-character
\* text zhong wen, "U+FF0C" the fullwidth comma.
CJKChars == {"U+4E2D", "U+6587", "U+FF0C"}

\* Widths are in hundredths of a pixel: 0.55 * fontSize is 55 * fontSize.
Hundredths == 100

NarrowPercent == 55

TextMargin == 16

\* Math.max(10, 13 - depth)
FontSizeOfDepth(depth) == IF 13 - depth < 10 THEN 10 ELSE 13 - depth

\* A measurement that gives every character the narrow width.
CharWidths_Uniform(text, fontSize) == Len(text) * NarrowPercent * fontSize

\* The sum of the character widths of text at the font size, in hundredths.
RECURSIVE CharWidths(_, _)
CharWidths(text, fontSize) ==
    IF text = <<>> THEN 0
    ELSE (IF Head(text) \in CJKChars THEN Hundredths * fontSize
          ELSE NarrowPercent * fontSize)
         + CharWidths(Tail(text), fontSize)

\* The width of text at a font size, in hundredths: the spec's measure.
measure(text, fontSize) == CharWidths(text, fontSize) + Hundredths * TextMargin

\* calculateTextWidth(text, depth), in hundredths.
calculateTextWidth(text, depth) == measure(text, FontSizeOfDepth(depth))

---------------------------------------------------------------------------
(* MindMapRenderer: what a render draws.                                   *)
(* A drawing is a record of the primitives created, in creation order:     *)
(*   nodes      - a node box with its label: node, side, parent, depth,    *)
(*                and at, its place: x (left edge of the box), width and   *)
(*                height of the box, y (the anchor: the vertical centre of *)
(*                the box) and span (the height allotted to the node's     *)
(*                subtree; for the root box, which is allotted none, the   *)
(*                height of the box)                                       *)
(*   connectors - [from, to]: a path from a parent to a child              *)
(*   circles    - [node, text, visible, hover]: a collapse indicator       *)
(* Coordinates and sizes are in units of 1/200 pixel, so that the halves   *)
(* of the widths (which are in hundredths) are whole numbers.              *)
(* The view of an instance keeps which primitives the last render made     *)
(* (Shown); where they are is the place the same render gives them, a      *)
(* function of the tree and the mode it was called with.                   *)

UnitsPerPixel == 2 * Hundredths

\* A number of pixels, in units.
Px(n) == n * UnitsPerPixel

Max(a, b) == IF a > b THEN a ELSE b

NoDrawing == [nodes |-> <<>>, connectors |-> <<>>, circles |-> <<>>]

\* The place of a node box: the function that gives the value of each of
\* its coordinates and sizes by name (and 0 for every other name).
Place(x, y, width, height, span) ==
    [c \in STRING |->
        CASE c = "x"      -> x
          [] c = "y"      -> y
          [] c = "width"  -> width
          [] c = "height" -> height
          [] c = "span"   -> span
          [] OTHER        -> 0]

\* The primitives of the drawing d without their places.
Shown(d) ==
    [d EXCEPT !.nodes = [j \in 1..Len(d.nodes) |->
                            [node |-> d.nodes[j].node, side |-> d.nodes[j].side,
                             parent |-> d.nodes[j].parent, depth |-> d.nodes[j].depth]]]

Draw(a, b) == [nodes      |-> a.nodes \o b.nodes,
               connectors |-> a.connectors \o b.connectors,
               circles    |-> a.circles \o b.circles]

\* The height of a node without drawn children and the gap between
\* siblings, of calculateTreeHeight.
TreeUnitHeight == 24

TreeVerticalGap == 20

\* The same two numbers of calculateRadialMindMapTreeHeight and of the
\* children functions.
RadialUnitHeight == 28

RadialVerticalGap == 8

\* const horizontalGap = 30
HorizontalGap == 30

\* The room of the note icon beside a label, and beside the label of the root.
NoteIconWidth == 18

RootNoteIconWidth == 20

\* const nodeHeight = 24 of the root box
RootNodeHeight == 24

\* startX and the top margin of renderOutlineView; the centre of
\* renderRadialMindMap.
OutlineStartX == 50

OutlineTopMargin == 50

RadialCenterX == 400

RadialCenterY == 300

\* node.note is truthy
HasNote(n) == n.hasNote /\ n.note # <<>>

RECURSIVE calculateTreeHeight(_, _), TreeHeightsOf(_, _)
RECURSIVE calculateRadialMindMapTreeHeight(_, _), RadialHeightsOf(_, _)

\* Mutant: the gap is added after every child, the last one included.
RadialHeightsOf_GapAfterEach(ns, children) ==
    IF children = <<>> THEN 0
    ELSE calculateRadialMindMapTreeHeight(ns, Head(children)) + RadialVerticalGap
            + RadialHeightsOf(ns, Tail(children))

\* calculateTreeHeight(node), in pixels
calculateTreeHeight(ns, n) ==
    IF Len(Children(ns, n)) = 0 \/ ns[n].collapsed
    THEN TreeUnitHeight
    ELSE TreeHeightsOf(ns, Children(ns, n))

\* The loop of calculateTreeHeight over the children.
TreeHeightsOf(ns, children) ==
    IF children = <<>> THEN 0
    ELSE calculateTreeHeight(ns, Head(children))
            + (IF Len(children) > 1 THEN TreeVerticalGap ELSE 0)
            + TreeHeightsOf(ns, Tail(children))

\* calculateRadialMindMapTreeHeight(node), in pixels
calculateRadialMindMapTreeHeight(ns, n) ==
    IF Len(Children(ns, n)) = 0 \/ ns[n].collapsed
    THEN RadialUnitHeight
    ELSE Max(RadialUnitHeight, RadialHeightsOf(ns, Children(ns, n)))

\* The loop of calculateRadialMindMapTreeHeight over the children; also
\* childHeights.reduce(...) + (children.length - 1) * verticalGap.
RadialHeightsOf(ns, children) ==
    IF children = <<>> THEN 0
    ELSE calculateRadialMindMapTreeHeight(ns, Head(children))
            + (IF Len(children) > 1 THEN RadialVerticalGap ELSE 0)
            + RadialHeightsOf(ns, Tail(children))

\* Mutant: the indicator shows the dash whether collapsed or not.
createXMindCircle_AlwaysDash(k, childCount, isCollapsed) ==
    [node    |-> k,
     text    |-> "-",
     visible |-> isCollapsed,
     hover   |-> ~isCollapsed]

\* createXMindCircle: the indicator shows the child count when collapsed and
\* a dash when expanded.  When expanded it is created with opacity 0
\* (visible = FALSE) and gets the mouseenter / mouseleave listeners that show
\* it while the pointer is over it (hover = TRUE); when collapsed it keeps
\* its opacity and gets no such listeners.
createXMindCircle(k, childCount, isCollapsed) ==
    [node    |-> k,
     text    |-> IF isCollapsed THEN ToString(childCount) ELSE "-",
     visible |-> isCollapsed,
     hover   |-> ~isCollapsed]

\* textWidth + noteIconWidth of a child at the depth, in units.
TotalNodeWidth(n, depth) ==
    2 * calculateTextWidth(n.text, depth)
        + (IF HasNote(n) THEN Px(NoteIconWidth) ELSE 0)

\* The box of the root: text width at depth 0 plus the room of its note icon.
RootNodeWidth(n) ==
    2 * calculateTextWidth(n.text, 0)
        + (IF HasNote(n) THEN Px(RootNoteIconWidth) ELSE 0)

\* The root box, with its left edge at x and its centre at height y.
RootBox(t, x, y) ==
    [NoDrawing EXCEPT !.nodes =
        <<[node |-> t.root, side |-> "root", parent |-> 0, depth |-> 0,
           at |-> Place(x, y, RootNodeWidth(t.nodes[t.root]),
                        Px(RootNodeHeight), Px(RootNodeHeight))]>>]

\* What the body of children.forEach draws for child k of parent p, without
\* the recursion: the connector, the node box (left edge nodeX, centre
\* childCenterY) and, for a child with children, the circle.
DrawChild(ns, p, k, side, depth, nodeX, childCenterY, childHeight) ==
    [nodes      |-> <<[node |-> k, side |-> side, parent |-> p, depth |-> depth,
                       at |-> Place(nodeX, childCenterY, TotalNodeWidth(ns[k], depth),
                                    Px(FontSizeOfDepth(depth) + 10), childHeight)]>>,
     connectors |-> <<[from |-> p, to |-> k]>>,
     circles    |-> IF Len(Children(ns, k)) > 0
                    THEN <<createXMindCircle(k, Len(Children(ns, k)), ns[k].collapsed)>>
                    ELSE <<>>]

\* Mutant: the block of the children starts at the height of the parent.
FirstCurrentY_FromParent(ns, children, parentY) == parentY

\* let currentY = parentY - totalChildrenHeight / 2
FirstCurrentY(ns, children, parentY) ==
    parentY - Px(RadialHeightsOf(ns, children)) \div 2

RECURSIVE renderOutlineViewChildren(_, _, _, _, _, _)
RECURSIVE OutlineForEach(_, _, _, _, _, _, _)

\* children.forEach of renderOutlineViewChildren, from the cursor currentY.
OutlineForEach(ns, children, p, parentRight, parentY, depth, currentY) ==
    IF children = <<>> THEN NoDrawing
    ELSE LET k            == Head(children)
             childHeight  == Px(calculateRadialMindMapTreeHeight(ns, k))
             childCenterY == currentY + childHeight \div 2
             nodeX        == parentRight + Px(HorizontalGap)
             childRight   == nodeX + TotalNodeWidth(ns[k], depth)
             sub  == IF ~ns[k].collapsed /\ Len(Children(ns, k)) > 0
                     THEN renderOutlineViewChildren(ns, Children(ns, k), k,
                                                    childRight, childCenterY, depth + 1)
                     ELSE NoDrawing
         IN  Draw(Draw(DrawChild(ns, p, k, "right", depth, nodeX, childCenterY,
                                 childHeight), sub),
                  OutlineForEach(ns, Tail(children), p, parentRight, parentY, depth,
                                 currentY + childHeight + Px(RadialVerticalGap)))

renderOutlineViewChildren(ns, children, p, parentRight, parentY, depth) ==
    OutlineForEach(ns, children, p, parentRight, parentY, depth,
                   FirstCurrentY(ns, children, parentY))

\* startY = totalHeight / 2 + 50
OutlineStartY(t) ==
    Px(calculateRadialMindMapTreeHeight(t.nodes, t.root)) \div 2 + Px(OutlineTopMargin)

\* Mutant: the root is treated like every other node, its children are drawn
\* only while it is expanded.
renderOutlineView_RootCollapses(t) ==
    LET rootBox == RootBox(t, Px(OutlineStartX), OutlineStartY(t))
    IN  IF Len(Children(t.nodes, t.root)) > 0 /\ ~t.nodes[t.root].collapsed
        THEN Draw(rootBox,
                  renderOutlineViewChildren(t.nodes, Children(t.nodes, t.root), t.root,
                      Px(OutlineStartX) + RootNodeWidth(t.nodes[t.root]),
                      OutlineStartY(t), 1))
        ELSE rootBox

\* renderOutlineView: the root box, then all children of the root.
renderOutlineView(t) ==
    LET rootBox == RootBox(t, Px(OutlineStartX), OutlineStartY(t))
    IN  IF Len(Children(t.nodes, t.root)) > 0
        THEN Draw(rootBox,
                  renderOutlineViewChildren(t.nodes, Children(t.nodes, t.root), t.root,
                      Px(OutlineStartX) + RootNodeWidth(t.nodes[t.root]),
                      OutlineStartY(t), 1))
        ELSE rootBox

RECURSIVE renderRadialMindMapChildrenRight(_, _, _, _, _, _)
RECURSIVE RadialRightForEach(_, _, _, _, _, _, _)

\* children.forEach of renderRadialMindMapChildrenRight.
RadialRightForEach(ns, children, p, parentRight, parentY, depth, currentY) ==
    IF children = <<>> THEN NoDrawing
    ELSE LET k            == Head(children)
             childHeight  == Px(calculateRadialMindMapTreeHeight(ns, k))
             childCenterY == currentY + childHeight \div 2
             nodeX        == parentRight + Px(HorizontalGap)
             childRight   == nodeX + TotalNodeWidth(ns[k], depth)
             sub  == IF ~ns[k].collapsed /\ Len(Children(ns, k)) > 0
                     THEN renderRadialMindMapChildrenRight(ns, Children(ns, k), k,
                                                           childRight, childCenterY, depth + 1)
                     ELSE NoDrawing
         IN  Draw(Draw(DrawChild(ns, p, k, "right", depth, nodeX, childCenterY,
                                 childHeight), sub),
                  RadialRightForEach(ns, Tail(children), p, parentRight, parentY, depth,
                                     currentY + childHeight + Px(RadialVerticalGap)))

renderRadialMindMapChildrenRight(ns, children, p, parentRight, parentY, depth) ==
    RadialRightForEach(ns, children, p, parentRight, parentY, depth,
                       FirstCurrentY(ns, children, parentY))

RECURSIVE renderRadialMindMapChildrenLeft(_, _, _, _, _, _)
RECURSIVE RadialLeftForEach(_, _, _, _, _, _, _)

\* children.forEach of renderRadialMindMapChildrenLeft.
RadialLeftForEach(ns, children, p, parentLeft, parentY, depth, currentY) ==
    IF children = <<>> THEN NoDrawing
    ELSE LET k            == Head(children)
             childHeight  == Px(calculateRadialMindMapTreeHeight(ns, k))
             childCenterY == currentY + childHeight \div 2
             nodeX        == parentLeft - Px(HorizontalGap) - TotalNodeWidth(ns[k], depth)
             sub  == IF ~ns[k].collapsed /\ Len(Children(ns, k)) > 0
                     THEN renderRadialMindMapChildrenLeft(ns, Children(ns, k), k,
                                                          nodeX, childCenterY, depth + 1)
                     ELSE NoDrawing
         IN  Draw(Draw(DrawChild(ns, p, k, "left", depth, nodeX, childCenterY,
                                 childHeight), sub),
                  RadialLeftForEach(ns, Tail(children), p, parentLeft, parentY, depth,
                                    currentY + childHeight + Px(RadialVerticalGap)))

renderRadialMindMapChildrenLeft(ns, children, p, parentLeft, parentY, depth) ==
    RadialLeftForEach(ns, children, p, parentLeft, parentY, depth,
                      FirstCurrentY(ns, children, parentY))

\* Math.ceil(n / 2)
CeilHalf(n) == (n + 1) \div 2

\* rootX = centerX - totalNodeWidth / 2
RadialRootX(t) == Px(RadialCenterX) - RootNodeWidth(t.nodes[t.root]) \div 2

\* Mutant: a collapsed root is drawn alone, with an indicator of its own.
renderRadialMindMap_RootCollapses(t) ==
    LET rootBox    == RootBox(t, RadialRootX(t), Px(RadialCenterY))
        children   == Children(t.nodes, t.root)
        rightCount == CeilHalf(Len(children))
        right      == SubSeq(children, 1, rightCount)
        left       == SubSeq(children, rightCount + 1, Len(children))
    IN  IF Len(children) > 0 /\ t.nodes[t.root].collapsed
        THEN [rootBox EXCEPT !.circles = <<createXMindCircle(t.root, Len(children), TRUE)>>]
        ELSE IF Len(children) > 0
        THEN Draw(Draw(rootBox,
                       renderRadialMindMapChildrenRight(t.nodes, right, t.root,
                           RadialRootX(t) + RootNodeWidth(t.nodes[t.root]),
                           Px(RadialCenterY), 1)),
                  renderRadialMindMapChildrenLeft(t.nodes, left, t.root,
                      RadialRootX(t), Px(RadialCenterY), 1))
        ELSE rootBox

\* Mutant: the first floor(n/2) children go to the right.
renderRadialMindMap_FloorHalf(t) ==
    LET rootBox    == RootBox(t, RadialRootX(t), Px(RadialCenterY))
        children   == Children(t.nodes, t.root)
        rightCount == Len(children) \div 2
        right      == SubSeq(children, 1, rightCount)
        left       == SubSeq(children, rightCount + 1, Len(children))
    IN  IF Len(children) > 0
        THEN Draw(Draw(rootBox,
                       renderRadialMindMapChildrenRight(t.nodes, right, t.root,
                           RadialRootX(t) + RootNodeWidth(t.nodes[t.root]),
                           Px(RadialCenterY), 1)),
                  renderRadialMindMapChildrenLeft(t.nodes, left, t.root,
                      RadialRootX(t), Px(RadialCenterY), 1))
        ELSE rootBox

\* renderRadialMindMap: the root box, the first ceil(n/2) children on the
\* right, the others on the left.
renderRadialMindMap(t) ==
    LET rootBox    == RootBox(t, RadialRootX(t), Px(RadialCenterY))
        children   == Children(t.nodes, t.root)
        rightCount == CeilHalf(Len(children))
        right      == SubSeq(children, 1, rightCount)
        left       == SubSeq(children, rightCount + 1, Len(children))
    IN  IF Len(children) > 0
        THEN Draw(Draw(rootBox,
                       renderRadialMindMapChildrenRight(t.nodes, right, t.root,
                           RadialRootX(t) + RootNodeWidth(t.nodes[t.root]),
                           Px(RadialCenterY), 1)),
                  renderRadialMindMapChildrenLeft(t.nodes, left, t.root,
                      RadialRootX(t), Px(RadialCenterY), 1))
        ELSE rootBox

\* The switch on this.renderMode of render() and refresh().
RenderByMode(t, mode) ==
    IF mode = "clockwise" THEN renderRadialMindMap(t) ELSE renderOutlineView(t)

\* The content of the container after render(): the placeholder paragraph
\* when the parser returned null, the drawing otherwise.
RenderView(t, mode) ==
    IF t.root = 0
    THEN [placeholder |-> TRUE, drawing |-> NoDrawing]
    ELSE [placeholder |-> FALSE, drawing |-> Shown(RenderByMode(t, mode))]

\* The container before render().
EmptyView == [placeholder |-> FALSE, drawing |-> NoDrawing]

\* Mutant: the node is set and the recursion into its children is left out.
setCollapsedState_Shallow(r, n, collapsed) ==
    IF Len(Children(r.nodes, n)) > 0
    THEN [nodes |-> [r.nodes EXCEPT ![n].collapsed = collapsed],
          map   |-> (r.nodes[n].id :> collapsed) @@ r.map]
    ELSE r

RECURSIVE setCollapsedState(_, _, _), setCollapsedStateOfAll(_, _, _)

\* Mutant: the test for children is left out.
setCollapsedState_Leaves(r, n, collapsed) ==
    setCollapsedStateOfAll(
        [nodes |-> [r.nodes EXCEPT ![n].collapsed = collapsed],
         map   |-> (r.nodes[n].id :> collapsed) @@ r.map],
        Children(r.nodes, n), collapsed)

\* MindMapRenderer.setCollapsedState(node, collapsed) on node n: the result
\* is the pair of the node array and the store after the recursion.
setCollapsedState(r, n, collapsed) ==
    IF Len(Children(r.nodes, n)) > 0
    THEN setCollapsedStateOfAll(
             [nodes |-> [r.nodes EXCEPT ![n].collapsed = collapsed],
              map   |-> (r.nodes[n].id :> collapsed) @@ r.map],
             Children(r.nodes, n), collapsed)
    ELSE r

setCollapsedStateOfAll(r, children, collapsed) ==
    IF children = <<>> THEN r
    ELSE setCollapsedStateOfAll(setCollapsedState(r, Head(children), collapsed),
                                Tail(children), collapsed)

\* Mutant: the toggle changes the node and leaves the store alone.
toggleNode_NoStore(r, k) ==
    [nodes |-> [r.nodes EXCEPT ![k].collapsed = ~@],
     map   |-> r.map]

\* toggleNode of the render functions, on the drawn child k:
\* child.collapsed = !child.collapsed; setCollapsedState(child.id, child.collapsed)
toggleNode(r, k) ==
    [nodes |-> [r.nodes EXCEPT ![k].collapsed = ~@],
     map   |-> (r.nodes[k].id :> ~r.nodes[k].collapsed) @@ r.map]

---------------------------------------------------------------------------
(* Numbers.                                                                *)
(* The numbers of the zoom and pan state are modelled as exact rationals   *)
(* [n, d] in lowest terms with d > 0: Math.max and Math.min are exact, and *)
(* the products and quotients are taken without the rounding of doubles.   *)

Abs(a) == IF a < 0 THEN -a ELSE a

RECURSIVE GCD(_, _)
GCD(a, b) == IF b = 0 THEN a ELSE GCD(b, a % b)

Q(n, d) ==
    LET s == IF d < 0 THEN -1 ELSE 1
        g == GCD(Abs(n), Abs(d))
    IN  [n |-> (s * n) \div g, d |-> (s * d) \div g]

QInt(k) == [n |-> k, d |-> 1]

Zero == QInt(0)

One == QInt(1)

QAdd(a, b) ==
    LET g == GCD(a.d, b.d)
    IN  Q(a.n * (b.d \div g) + b.n * (a.d \div g), (a.d \div g) * b.d)

QNeg(a) == [n |-> -a.n, d |-> a.d]

QSub(a, b) == QAdd(a, QNeg(b))

\* The product, cancelling across before multiplying.
QMul(a, b) ==
    LET x == Q(a.n, b.d)
        y == Q(b.n, a.d)
    IN  [n |-> x.n * y.n, d |-> x.d * y.d]

\* The quotient a / b for b # 0.
QDiv(a, b) == QMul(a, Q(b.d, b.n))

QLe(a, b) == a.n * b.d <= b.n * a.d

QLt(a, b) == a.n * b.d < b.n * a.d

\* Math.min and Math.max
QMin(a, b) == IF QLe(a, b) THEN a ELSE b

QMax(a, b) == IF QLe(a, b) THEN b ELSE a

---------------------------------------------------------------------------
(* MindMapRenderer: zoom, pan, fullscreen and the fitting of the view      *)

\* The zoom, pan and fullscreen fields of a new instance.
NewTransform ==
    [scale |-> One, translateX |-> Zero, translateY |-> Zero,
     isFullscreen |-> FALSE,
     isDragging |-> FALSE, dragStartX |-> Zero, dragStartY |-> Zero,
     initialPinchDistance |-> Zero, initialScale |-> One,
     savedScale |-> One, savedTranslateX |-> Zero, savedTranslateY |-> Zero]

\* The bounds of zoom(): Math.max(0.1, Math.min(5, x))
MinScale == Q(1, 10)

MaxScale == QInt(5)

ClampScale(x) == QMax(MinScale, QMin(MaxScale, x))

\* The translation that keeps the point c of the canvas fixed when the scale
\* goes from oldScale to newScale: c - (c - translate) * (newScale / oldScale)
ZoomAbout(c, translate, newScale, oldScale) ==
    QSub(c, QMul(QSub(c, translate), QDiv(newScale, oldScale)))

\* zoom(factor, centerX, centerY); hasCenter = FALSE for zoom(factor).
\* mouseX, mouseY: the centre relative to the svg (centerX - rect.left).
zoom(t, factor, hasCenter, mouseX, mouseY) ==
    LET newScale == ClampScale(QMul(t.scale, factor))
    IN  [t EXCEPT
            !.translateX = IF hasCenter THEN ZoomAbout(mouseX, @, newScale, t.scale) ELSE @,
            !.translateY = IF hasCenter THEN ZoomAbout(mouseY, @, newScale, t.scale) ELSE @,
            !.scale      = newScale]

\* The sizes used when the svg reports clientWidth / clientHeight 0.
DefaultSvgWidth == 800

DefaultSvgHeight == 600

\* The margins of centerTree.
FitMarginX == 80

FitMarginY == 60

FitLeft == 40

\* svg.clientWidth || 800 and svg.clientHeight || 600 of the measurement m
SvgWidth(m) == IF m.clientWidth = 0 THEN DefaultSvgWidth ELSE m.clientWidth

SvgHeight(m) == IF m.clientHeight = 0 THEN DefaultSvgHeight ELSE m.clientHeight

\* Mutant: the fit may enlarge the drawing.
centerTree_Upscaling(t, m) ==
    LET svgWidth  == SvgWidth(m)
        svgHeight == SvgHeight(m)
        scale     == QMin(Q(svgWidth - FitMarginX, m.bbox.width),
                          Q(svgHeight - FitMarginY, m.bbox.height))
    IN  [t EXCEPT
            !.scale      = scale,
            !.translateX = QSub(QInt(FitLeft), QMul(QInt(m.bbox.x), scale)),
            !.translateY = QSub(QMul(QSub(QInt(svgHeight),
                                          QMul(QInt(m.bbox.height), scale)), Q(1, 2)),
                                QMul(QInt(m.bbox.y), scale))]

\* Mutant: the fit centres the drawing horizontally as well.
centerTree_Centring(t, m) ==
    LET svgWidth  == SvgWidth(m)
        svgHeight == SvgHeight(m)
        scaleX    == QMin(One, Q(svgWidth - FitMarginX, m.bbox.width))
        scaleY    == QMin(One, Q(svgHeight - FitMarginY, m.bbox.height))
        scale     == QMin(QMin(scaleX, scaleY), One)
    IN  [t EXCEPT
            !.scale      = scale,
            !.translateX = QSub(QMul(QSub(QInt(svgWidth),
                                          QMul(QInt(m.bbox.width), scale)), Q(1, 2)),
                                QMul(QInt(m.bbox.x), scale)),
            !.translateY = QSub(QMul(QSub(QInt(svgHeight),
                                          QMul(QInt(m.bbox.height), scale)), Q(1, 2)),
                                QMul(QInt(m.bbox.y), scale))]

\* centerTree(g, svg).  m = [bbox, clientWidth, clientHeight] is what
\* g.getBBox() and the svg report; bbox = [x, y, width, height].
centerTree(t, m) ==
    LET svgWidth  == SvgWidth(m)
        svgHeight == SvgHeight(m)
        scaleX    == QMin(One, Q(svgWidth - FitMarginX, m.bbox.width))
        scaleY    == QMin(One, Q(svgHeight - FitMarginY, m.bbox.height))
        scale     == QMin(QMin(scaleX, scaleY), One)
    IN  [t EXCEPT
            !.scale      = scale,
            !.translateX = QSub(QInt(FitLeft), QMul(QInt(m.bbox.x), scale)),
            !.translateY = QSub(QMul(QSub(QInt(svgHeight),
                                          QMul(QInt(m.bbox.height), scale)), Q(1, 2)),
                                QMul(QInt(m.bbox.y), scale))]

\* resetZoom()
resetZoom(t, m) == centerTree([t EXCEPT !.scale = One], m)

\* The restoring of scale and translation on leaving fullscreen.
RestoreSaved(t) ==
    [t EXCEPT !.scale = t.savedScale,
              !.translateX = t.savedTranslateX,
              !.translateY = t.savedTranslateY]

\* toggleFullscreen()
toggleFullscreen(t, m) ==
    IF ~t.isFullscreen
    THEN centerTree([t EXCEPT !.isFullscreen = TRUE,
                              !.savedScale = t.scale,
                              !.savedTranslateX = t.translateX,
                              !.savedTranslateY = t.translateY], m)
    ELSE RestoreSaved([t EXCEPT !.isFullscreen = FALSE])

\* Mutant: the exit event clears the flag and restores nothing.
handleFullscreenChange_NoRestore(t, isFullscreen, m) ==
    IF t.isFullscreen = isFullscreen THEN t
    ELSE IF ~isFullscreen
         THEN [t EXCEPT !.isFullscreen = FALSE]
         ELSE centerTree([t EXCEPT !.isFullscreen = TRUE], m)

\* handleFullscreenChange, isFullscreen being what the document reports.
handleFullscreenChange(t, isFullscreen, m) ==
    IF t.isFullscreen = isFullscreen THEN t
    ELSE IF ~isFullscreen
         THEN RestoreSaved([t EXCEPT !.isFullscreen = FALSE])
         ELSE centerTree([t EXCEPT !.isFullscreen = TRUE], m)

\* The change handler of the zoom level selector.
selectZoomLevel(t, level) == [t EXCEPT !.scale = level]

\* The options of the zoom level selector.
zoomLevels ==
    {Q(1, 4), Q(1, 2), Q(3, 4), One, Q(5, 4), Q(3, 2), QInt(2), QInt(3), QInt(4)}

\* The gesturestart and gesturechange handlers (Safari).
gesturestart(t) == [t EXCEPT !.initialScale = t.scale]

gesturechange(t, eScale, centerX, centerY) ==
    LET newScale == ClampScale(QMul(t.initialScale, eScale))
    IN  [t EXCEPT !.translateX = ZoomAbout(centerX, @, newScale, t.scale),
                  !.translateY = ZoomAbout(centerY, @, newScale, t.scale),
                  !.scale      = newScale]

\* The touchstart and touchmove handlers for two touches at the given
\* distance, (centerX, centerY) being the middle of the two touches.
touchstart(t, distance) ==
    [t EXCEPT !.initialPinchDistance = distance, !.initialScale = t.scale]

touchmove(t, distance, centerX, centerY) ==
    LET scaleFactor == QDiv(distance, t.initialPinchDistance)
        newScale    == ClampScale(QMul(t.initialScale, scaleFactor))
    IN  [t EXCEPT !.translateX = ZoomAbout(centerX, @, newScale, t.scale),
                  !.translateY = ZoomAbout(centerY, @, newScale, t.scale),
                  !.scale      = newScale]

\* The mousedown (left button, not on a circle or a text), mousemove and
\* mouseup / mouseleave handlers.
mousedown(t, clientX, clientY) ==
    [t EXCEPT !.isDragging = TRUE,
              !.dragStartX = QSub(clientX, t.translateX),
              !.dragStartY = QSub(clientY, t.translateY)]

mousemove(t, clientX, clientY) ==
    IF t.isDragging
    THEN [t EXCEPT !.translateX = QSub(clientX, t.dragStartX),
                   !.translateY = QSub(clientY, t.dragStartY)]
    ELSE t

mouseup(t) == [t EXCEPT !.isDragging = FALSE]

\* The wheel listeners: the first is registered when enableWheelZoom is set
\* and zooms on every wheel event, the second when enablePinchZoom is set and
\* zooms on wheel events with ctrlKey.
wheel(t, s, deltaYPositive, ctrlKey, mouseX, mouseY) ==
    LET t1 == IF s.enableWheelZoom
              THEN zoom(t, IF deltaYPositive THEN Q(9, 10) ELSE Q(11, 10),
                        TRUE, mouseX, mouseY)
              ELSE t
    IN  IF s.enablePinchZoom /\ ctrlKey
        THEN zoom(t1, IF deltaYPositive THEN Q(19, 20) ELSE Q(21, 20),
                  TRUE, mouseX, mouseY)
        ELSE t1

\* The scale and the translation of a transform.
Placement(t) == <<t.scale, t.translateX, t.translateY>>

\* Mutant: the refresh fits nothing and goes back to the initial placement.
refresh_Resetting(t) ==
    [t EXCEPT !.scale = One, !.translateX = Zero, !.translateY = Zero]

\* refresh(), as far as the zoom and pan fields go: scale and translation
\* are saved before the redrawing and written back after it.
refresh(t) ==
    LET savedScale      == t.scale
        savedTranslateX == t.translateX
        savedTranslateY == t.translateY
    IN  [t EXCEPT !.scale = savedScale,
                  !.translateX = savedTranslateX,
                  !.translateY = savedTranslateY]

---------------------------------------------------------------------------
(* The settings tab *)

\* parseInt(value): leading whitespace, an optional sign, then decimal
\* digits up to the first other character; NaN when there is no digit.
\* A parsed number is [nan, v]: nan = TRUE stands for NaN.
NaN == [nan |-> TRUE, v |-> 0]

Digits == {"0", "1", "2", "3", "4", "5", "6", "7", "8", "9"}

DigitValue(c) == CHOOSE v \in 0..9 : ToString(v) = c

RECURSIVE DigitsValue(_, _)
DigitsValue(s, acc) ==
    IF s = <<>> \/ Head(s) \notin Digits THEN acc
    ELSE DigitsValue(Tail(s), 10 * acc + DigitValue(Head(s)))

parseInt(value) ==
    LET s    == TrimLeft(value)
        neg  == s # <<>> /\ Head(s) = "-"
        body == IF s # <<>> /\ Head(s) \in {"-", "+"} THEN Tail(s) ELSE s
    IN  IF body = <<>> \/ Head(body) \notin Digits THEN NaN
        ELSE [nan |-> FALSE,
              v   |-> IF neg THEN -DigitsValue(body, 0) ELSE DigitsValue(body, 0)]

\* The bounds of the note panel width accepted by the settings tab.
MinNotePanelWidth == 200

MaxNotePanelWidth == 800

\* DEFAULT_SETTINGS (the fields used here).
DEFAULT_SETTINGS ==
    [enableWheelZoom |-> FALSE, enablePinchZoom |-> FALSE,
     defaultRenderMode |-> "clockwise", notePanelWidth |-> 300]

\* A handler that clamps the entered width into the accepted range.
onChangeNotePanelWidth_Clamping(s, value) ==
    LET width == parseInt(value)
    IN  IF width.nan
        THEN s
        ELSE [s EXCEPT !.notePanelWidth =
                  IF width.v < MinNotePanelWidth THEN MinNotePanelWidth
                  ELSE IF width.v > MaxNotePanelWidth THEN MaxNotePanelWidth
                  ELSE width.v]

\* The onChange handler of the 'Note panel width' field.
onChangeNotePanelWidth(s, value) ==
    LET width == parseInt(value)
    IN  IF ~width.nan /\ width.v >= MinNotePanelWidth /\ width.v <= MaxNotePanelWidth
        THEN [s EXCEPT !.notePanelWidth = width.v]
        ELSE s

---------------------------------------------------------------------------
(* Inputs *)

Instances == {"A", "B"}

RenderModes == {"logic", "clockwise"}

\* The lines the input texts of the parser specification are made of.
Lines ==
    { <<>>,                                   \* (empty line)
      <<" ">>,                                \* (blank line)
      <<"#", " ", "T">>,                      \* # T
      <<"#", "T">>,                           \* #T
      <<"#", " ", "R", "o", "o", "t">>,       \* # Root
      <<"#", "#", " ", "a">>,                 \* ## a
      <<"#", "#", "a">>,                      \* ##a
      <<" ", "#", "#", "#", " ", "b", " ">>,  \* (indented) ### b
      <<"-", " ", "a">>,                      \* - a
      <<" ", " ", "-", " ", "b">>,            \*   - b
      <<"\t", "*", " ", "b">>,                \* (tab) * b
      <<"a", " ", "\t", "b">>                 \* a (space, tab) b
    }

\* All texts of 1..MaxLines lines.
Texts ==
    {Join(ls, "\n") : ls \in UNION {[1..n -> Lines] : n \in 1..MaxLines}}

\* The documents of the interactive specification.
DocTitleList   == <<"#", " ", "T", "\n", "-", " ", "a", "\n", " ", " ", "-", " ", "b",
                    "\n", "-", " ", "c">>
DocLineBefore  == <<"#", " ", "T", "\n", "-", " ", "x", "\n", "-", " ", "a", "\n",
                    " ", " ", "-", " ", "b">>
DocLineAfter   == <<"#", " ", "T", "\n", "-", " ", "a", "\n", " ", " ", "-", " ", "b",
                    "\n", " ", " ", "-", " ", "d">>
DocHeadings    == <<"#", " ", "T", "\n", "#", "#", " ", "a", "\n", "#", "#", "#", " ", "b",
                    "\n", "#", "#", " ", "c">>
DocSingleTop   == <<"-", " ", "a", "\n", " ", " ", "-", " ", "b", "\n", " ", " ", "-", " ", "c">>

DocModeChange  == <<"#", " ", "T", "\n", "-", " ", "a", "\n", " ", " ", "-", " ", "b",
                    "\n", "#", "#", " ", "h">>

Sources == {DocTitleList, DocLineBefore, DocLineAfter, DocHeadings, DocSingleTop,
            DocModeChange}

\* DocTitleList after the line of 'b' has been deleted: 'a' keeps its id and
\* has no child.
DocChildDeleted == <<"#", " ", "T", "\n", "-", " ", "a", "\n", "-", " ", "c">>

\* The documents of the editing specification.
EditedSources == {DocTitleList, DocChildDeleted}

\* A title with three list items, which the radial layout splits two to the
\* right and one to the left; and the documents whose layout is followed.
DocThreeChildren ==
    <<"#", " ", "T", "\n", "-", " ", "a", "\n", "-", " ", "b", "\n", "-", " ", "c">>

LaidOutSources == Sources \cup {DocThreeChildren}

\* What the browser reports to centerTree: the bounding box of the drawing
\* and the client size of the svg (0 while the svg has no layout).
Measurement(x, y, width, height, clientWidth, clientHeight) ==
    [bbox |-> [x |-> x, y |-> y, width |-> width, height |-> height],
     clientWidth |-> clientWidth, clientHeight |-> clientHeight]

\* A small drawing in an svg without layout.
DefaultMeasurement == Measurement(20, 250, 300, 100, 0, 0)

\* A drawing of some 250 leaves, 10800 high, in a pane of 1200 x 600.
TallMeasurement == Measurement(20, -5100, 400, 10800, 1200, 600)

\* A wide drawing on a screen of 1920 x 1080.
WideMeasurement == Measurement(20, 250, 3680, 510, 1920, 1080)

\* The measurements of the view specification.
ViewMeasurements == {DefaultMeasurement, TallMeasurement}

\* The measurements of the fitting specification.
FitMeasurements ==
    {Measurement(x, y, w, h, c[1], c[2]) :
        x \in {-300, 20}, y \in {-50, 250},
        w \in {100, 720, 5000}, h \in {50, 540, 6000},
        c \in {<<0, 0>>, <<60, 40>>, <<400, 600>>, <<1920, 1080>>}}

\* Positions of the mouse and of gesture centres, relative to the svg.
Points == {<<QInt(100), QInt(200)>>, <<QInt(400), QInt(300)>>}

WheelPoint == <<QInt(100), QInt(200)>>

\* Values of e.scale of a gesturechange event.
GestureScales == {Q(1, 20), Q(3, 2), QInt(60)}

\* Distances of the two touches of a pinch.
PinchDistances == {QInt(100), QInt(300)}

\* The zoom levels the user selects.
ZoomLevelChoices == {Q(1, 4), QInt(4)}

\* The texts typed into the note panel width field.
WidthTexts ==
    { <<>>, <<"x">>, <<"0">>, <<"8">>, <<"-", "3", "0", "0">>,
      <<"1", "9", "9">>, <<"2", "0", "0">>, <<"2", "0", "1">>,
      <<"3", "0", "0">>, <<"5", "5", "0">>, <<"7", "9", "9">>,
      <<"8", "0", "0">>, <<"8", "0", "1">>, <<"1", "0", "0", "0">>,
      <<"9", "9", "9", "9", "9">>, <<" ", "2", "5", "0">>,
      <<"2", "6", "0", "p", "x">>, <<"4", "0", "0", ".", "9">>,
      <<"8", "e", "2">>, <<"+", "7", "0", "0">>, <<"2", " ", "5", "0">> }

\* The characters of the label texts that are measured.
LabelChars == {"a", "b", "c", "d", "U+4E2D", "U+6587"}

\* The label texts: all texts of up to MaxLabelLen characters.
LabelTexts == UNION {[1..n -> LabelChars] : n \in 0..MaxLabelLen}

\* The depths of the labels that are measured.
LabelDepths == {0, 2, 5}

---------------------------------------------------------------------------
(* State machine *)

\* The nodes of a tree: node n and all its descendants.
RECURSIVE Descendants(_, _)
Descendants(ns, n) ==
    {n} \cup UNION {Descendants(ns, k) : k \in {j \in 1..Len(ns) : ns[j].parent = n}}

TreeNodes(t) == IF t.root = 0 THEN {} ELSE Descendants(t.nodes, t.root)

HasChildren(ns, n) == Len(Children(ns, n)) > 0

\* No centerTree has run, or the view has been zoomed or panned since.
NoFit == [done |-> FALSE]

\* centerTree has run on the measurement m in the render mode.
Fitted(m, mode) == [done |-> TRUE, m |-> m, mode |-> mode]

\* No refresh has run.
NoRefresh == [n |-> 0, from |-> Placement(NewTransform)]

\* The record of one more refresh of instance i.
RefreshOf(i) == [n |-> refreshed[i].n + 1, from |-> Placement(transform[i])]

\* refresh() redraws in the current mode (it returns at once when render()
\* has created no wrapper).
Refreshed(i, t, mode) ==
    IF view[i].placeholder THEN view[i]
    ELSE [placeholder |-> FALSE, drawing |-> Shown(RenderByMode(t, mode))]

\* The controls and the drawing exist: render() went past the null check.
Rendered(i) == alive[i] /\ loaded[i] /\ ~view[i].placeholder

\* new MindMapRenderer(source, ...) for the code block in slot i (a re-render
\* of the block replaces the instance of the slot).
Construct(i, text, mode) ==
    /\ steps < MaxSteps
    /\ alive' = [alive EXCEPT ![i] = TRUE]
    /\ loaded' = [loaded EXCEPT ![i] = FALSE]
    /\ source' = [source EXCEPT ![i] = text]
    /\ root' = [root EXCEPT ![i] = NullTree]
    /\ renderMode' = [renderMode EXCEPT ![i] = mode]
    /\ view' = [view EXCEPT ![i] = EmptyView]
    /\ fresh' = [fresh EXCEPT ![i] = FALSE]
    /\ steps' = steps + 1
    /\ transform' = [transform EXCEPT ![i] = NewTransform]
    /\ fit' = [fit EXCEPT ![i] = NoFit]
    /\ refreshed' = [refreshed EXCEPT ![i] = NoRefresh]
    /\ UNCHANGED <<store, parsed, parsedDone, toggles, unitVars>>

\* onload(): render().  m is what the browser reports to centerTree for the
\* drawing: the bounding box of the main group and the size of the svg.
OnLoad(i, m) ==
    /\ alive[i] /\ ~loaded[i]
    /\ LET t == MindMapRenderer_parseMarkdownList(source[i], store)
       IN  /\ root' = [root EXCEPT ![i] = t]
           /\ view' = [view EXCEPT ![i] = RenderView(t, renderMode[i])]
           /\ transform' = [transform EXCEPT ![i] =
                                IF t.root = 0 THEN @ ELSE centerTree(@, m)]
           /\ fit' = [fit EXCEPT ![i] =
                          IF t.root = 0 THEN @ ELSE Fitted(m, renderMode[i])]
    /\ loaded' = [loaded EXCEPT ![i] = TRUE]
    /\ fresh' = [fresh EXCEPT ![i] = TRUE]
    /\ UNCHANGED <<store, alive, source, renderMode, parsed, parsedDone, toggles, steps,
                   refreshed, unitVars>>

\* Mutant: the toggle also sets the flag of the nodes with the same id in the
\* trees of the other instances.
ToggleNode_Propagating(i, k) ==
    /\ steps < MaxSteps
    /\ Rendered(i)
    /\ \E j \in 1..Len(view[i].drawing.circles) : view[i].drawing.circles[j].node = k
    /\ LET r == toggleNode([nodes |-> root[i].nodes, map |-> store], k)
           t == [root[i] EXCEPT !.nodes = r.nodes]
           n == root[i].nodes[k]
       IN  /\ root' = [j \in Instances |->
                          IF j = i THEN t
                          ELSE [root[j] EXCEPT !.nodes =
                                   [x \in 1..Len(root[j].nodes) |->
                                       IF root[j].nodes[x].id = n.id
                                       THEN [root[j].nodes[x] EXCEPT !.collapsed = ~n.collapsed]
                                       ELSE root[j].nodes[x]]]]
           /\ store' = r.map
           /\ view' = [view EXCEPT ![i] = Refreshed(i, t, renderMode[i])]
           /\ toggles' = {x \in toggles : x.id # n.id}
                           \cup {[id |-> n.id, src |-> source[i], node |-> k,
                                  line |-> n.line, v |-> ~n.collapsed]}
    /\ fresh' = [j \in Instances |-> FALSE]
    /\ steps' = steps + 1
    /\ transform' = [transform EXCEPT ![i] = refresh([@ EXCEPT !.isDragging = FALSE])]
    /\ refreshed' = [refreshed EXCEPT ![i] = RefreshOf(i)]
    /\ UNCHANGED <<alive, loaded, source, renderMode, parsed, parsedDone, fit, unitVars>>

\* A click on the collapse indicator of the drawn node k.
ToggleNode(i, k) ==
    /\ steps < MaxSteps
    /\ Rendered(i)
    /\ \E j \in 1..Len(view[i].drawing.circles) : view[i].drawing.circles[j].node = k
    /\ LET r == toggleNode([nodes |-> root[i].nodes, map |-> store], k)
           t == [root[i] EXCEPT !.nodes = r.nodes]
           n == root[i].nodes[k]
       IN  /\ root' = [root EXCEPT ![i] = t]
           /\ store' = r.map
           /\ view' = [view EXCEPT ![i] = Refreshed(i, t, renderMode[i])]
           /\ toggles' = {x \in toggles : x.id # n.id}
                           \cup {[id |-> n.id, src |-> source[i], node |-> k,
                                  line |-> n.line, v |-> ~n.collapsed]}
    /\ fresh' = [j \in Instances |-> FALSE]
    /\ steps' = steps + 1
    /\ transform' = [transform EXCEPT ![i] = refresh([@ EXCEPT !.isDragging = FALSE])]
    /\ refreshed' = [refreshed EXCEPT ![i] = RefreshOf(i)]
    /\ UNCHANGED <<alive, loaded, source, renderMode, parsed, parsedDone, fit, unitVars>>

\* expandAll() (collapsed = FALSE) and collapseAll() (collapsed = TRUE).
SetAll(i, collapsed) ==
    /\ steps < MaxSteps
    /\ Rendered(i)
    /\ root[i].root # 0
    /\ LET r == setCollapsedState([nodes |-> root[i].nodes, map |-> store],
                                  root[i].root, collapsed)
           t == [root[i] EXCEPT !.nodes = r.nodes]
           written == {root[i].nodes[k].id :
                          k \in {j \in TreeNodes(root[i]) : HasChildren(root[i].nodes, j)}}
       IN  /\ root' = [root EXCEPT ![i] = t]
           /\ store' = r.map
           /\ view' = [view EXCEPT ![i] = Refreshed(i, t, renderMode[i])]
           /\ toggles' = {x \in toggles : x.id \notin written}
    /\ fresh' = [j \in Instances |-> FALSE]
    /\ steps' = steps + 1
    /\ transform' = [transform EXCEPT ![i] = refresh(@)]
    /\ refreshed' = [refreshed EXCEPT ![i] = RefreshOf(i)]
    /\ UNCHANGED <<alive, loaded, source, renderMode, parsed, parsedDone, fit, unitVars>>

ExpandAll(i) == SetAll(i, FALSE)

CollapseAll(i) == SetAll(i, TRUE)

\* The change handler of the mode selector.
SetRenderMode(i, mode) ==
    /\ steps < MaxSteps
    /\ Rendered(i)
    /\ mode # renderMode[i]
    /\ renderMode' = [renderMode EXCEPT ![i] = mode]
    /\ view' = [view EXCEPT ![i] = Refreshed(i, root[i], mode)]
    /\ steps' = steps + 1
    /\ transform' = [transform EXCEPT ![i] = refresh(@)]
    /\ refreshed' = [refreshed EXCEPT ![i] = RefreshOf(i)]
    /\ UNCHANGED <<store, alive, loaded, source, root, parsed, parsedDone, fresh, toggles,
                   fit, unitVars>>

\* A call of the exported parseMarkdownList on the text of slot A.
ParseText ==
    /\ alive["A"] /\ ~parsedDone
    /\ parsed' = parseMarkdownList(source["A"], store)
    /\ parsedDone' = TRUE
    /\ UNCHANGED <<store, alive, loaded, source, root, renderMode, view, fresh, toggles, steps,
                   viewVars, unitVars>>

NoInstances ==
    /\ alive = [i \in Instances |-> FALSE]
    /\ loaded = [i \in Instances |-> FALSE]
    /\ source = [i \in Instances |-> <<>>]
    /\ root = [i \in Instances |-> NullTree]
    /\ renderMode = [i \in Instances |-> "clockwise"]
    /\ view = [i \in Instances |-> EmptyView]
    /\ fresh = [i \in Instances |-> FALSE]
    /\ transform = [i \in Instances |-> NewTransform]
    /\ fit = [i \in Instances |-> NoFit]
    /\ refreshed = [i \in Instances |-> NoRefresh]

\* Nothing typed, nothing measured.
NoUnits ==
    /\ entered = <<>>
    /\ measured = [text |-> <<>>, depth |-> 0, width |-> calculateTextWidth(<<>>, 0)]

Init ==
    /\ store = <<>>
    /\ NoInstances
    /\ parsed = NullTree
    /\ parsedDone = FALSE
    /\ toggles = {}
    /\ steps = 0
    /\ settings = DEFAULT_SETTINGS
    /\ NoUnits

Next ==
    \/ \E i \in Instances, text \in Sources, mode \in RenderModes : Construct(i, text, mode)
    \/ \E i \in Instances : OnLoad(i, DefaultMeasurement)
    \/ \E i \in Instances : \E k \in 1..Len(root[i].nodes) : ToggleNode(i, k)
    \/ \E i \in Instances : ExpandAll(i)
    \/ \E i \in Instances : CollapseAll(i)
    \/ \E i \in Instances, mode \in RenderModes : SetRenderMode(i, mode)

\* The interactive specification: code blocks are rendered and operated.
Spec == Init /\ [][Next]_vars

\* The editing specification: the code blocks hold a document and the same
\* document after the deletion of a child line; they are parsed against the
\* shared store, toggled, expanded and collapsed.
NextEdit ==
    \/ \E i \in Instances, text \in EditedSources : Construct(i, text, "clockwise")
    \/ \E i \in Instances : OnLoad(i, DefaultMeasurement)
    \/ \E i \in Instances : \E k \in 1..Len(root[i].nodes) : ToggleNode(i, k)
    \/ \E i \in Instances : ExpandAll(i)
    \/ \E i \in Instances : CollapseAll(i)

EditSpec == Init /\ [][NextEdit]_vars

\* The one code block whose layout is followed.
Diagram == "A"

\* The layout specification: one code block is rendered in either mode and
\* operated.  Where the boxes of a diagram are depends on its own tree and
\* mode only.
NextLayout ==
    \/ \E text \in LaidOutSources, mode \in RenderModes : Construct(Diagram, text, mode)
    \/ OnLoad(Diagram, DefaultMeasurement)
    \/ \E k \in 1..Len(root[Diagram].nodes) : ToggleNode(Diagram, k)
    \/ ExpandAll(Diagram)
    \/ CollapseAll(Diagram)
    \/ \E mode \in RenderModes : SetRenderMode(Diagram, mode)

LayoutSpec == Init /\ [][NextLayout]_vars

\* The parser specification: one instance constructed on any text of Texts;
\* its onload parses and renders it, and the exported parser is applied to
\* the same text.
InitParse ==
    /\ store = <<>>
    /\ alive = [i \in Instances |-> i = "A"]
    /\ loaded = [i \in Instances |-> FALSE]
    /\ source \in {[i \in Instances |-> IF i = "A" THEN t ELSE <<>>] : t \in Texts}
    /\ root = [i \in Instances |-> NullTree]
    /\ renderMode = [i \in Instances |-> "clockwise"]
    /\ view = [i \in Instances |-> EmptyView]
    /\ fresh = [i \in Instances |-> FALSE]
    /\ parsed = NullTree
    /\ parsedDone = FALSE
    /\ toggles = {}
    /\ steps = 0
    /\ transform = [i \in Instances |-> NewTransform]
    /\ fit = [i \in Instances |-> NoFit]
    /\ refreshed = [i \in Instances |-> NoRefresh]
    /\ settings = DEFAULT_SETTINGS
    /\ NoUnits

NextParse ==
    \/ OnLoad("A", DefaultMeasurement)
    \/ ParseText

ParseSpec == InitParse /\ [][NextParse]_vars

---------------------------------------------------------------------------
(* State machine: zoom, pan, fullscreen *)

\* A step of instance i that changes its zoom and pan fields to t and leaves
\* the placement computed by centerTree, when keepFit is FALSE.
ViewStep(i, t, keepFit) ==
    /\ transform' = [transform EXCEPT ![i] = t]
    /\ fit' = [fit EXCEPT ![i] = IF keepFit THEN @ ELSE NoFit]
    /\ steps' = steps + 1
    /\ UNCHANGED <<treeVars, refreshed, unitVars>>

\* A click on the zoom-in (factor 1.2) or the zoom-out (factor 0.8) button.
ZoomButton(i, factor) ==
    /\ steps < MaxViewSteps
    /\ Rendered(i)
    /\ ViewStep(i, zoom(transform[i], factor, FALSE, Zero, Zero), FALSE)

\* A wheel event on the svg.
Wheel(i, deltaYPositive, ctrlKey, p) ==
    /\ steps < MaxGestures
    /\ Rendered(i)
    /\ settings.enableWheelZoom \/ (settings.enablePinchZoom /\ ctrlKey)
    /\ ViewStep(i, wheel(transform[i], settings, deltaYPositive, ctrlKey, p[1], p[2]), FALSE)

GestureStart(i) ==
    /\ steps < MaxGestures
    /\ Rendered(i)
    /\ settings.enablePinchZoom
    /\ ViewStep(i, gesturestart(transform[i]), TRUE)

GestureChange(i, eScale, p) ==
    /\ steps < MaxGestures
    /\ Rendered(i)
    /\ settings.enablePinchZoom
    /\ ViewStep(i, gesturechange(transform[i], eScale, p[1], p[2]), FALSE)

TouchStart(i, distance) ==
    /\ steps < MaxGestures
    /\ Rendered(i)
    /\ settings.enablePinchZoom
    /\ ViewStep(i, touchstart(transform[i], distance), TRUE)

\* A touchmove with two touches follows a touchstart with two touches.
TouchMove(i, distance, p) ==
    /\ steps < MaxGestures
    /\ Rendered(i)
    /\ settings.enablePinchZoom
    /\ transform[i].initialPinchDistance # Zero
    /\ ViewStep(i, touchmove(transform[i], distance, p[1], p[2]), FALSE)

SelectZoomLevel(i, level) ==
    /\ steps < MaxViewSteps
    /\ Rendered(i)
    /\ ViewStep(i, selectZoomLevel(transform[i], level), FALSE)

\* Mutant: the reset of the view also empties the store.
ResetZoom_Clearing(i, m) ==
    /\ steps < MaxViewSteps
    /\ Rendered(i)
    /\ transform' = [transform EXCEPT ![i] = resetZoom(@, m)]
    /\ fit' = [fit EXCEPT ![i] = Fitted(m, renderMode[i])]
    /\ steps' = steps + 1
    /\ store' = <<>>
    /\ UNCHANGED <<alive, loaded, source, root, renderMode, view, parsed, parsedDone,
                   fresh, toggles, refreshed, unitVars>>

\* A click on the reset button.
ResetZoom(i, m) ==
    /\ steps < MaxViewSteps
    /\ Rendered(i)
    /\ transform' = [transform EXCEPT ![i] = resetZoom(@, m)]
    /\ fit' = [fit EXCEPT ![i] = Fitted(m, renderMode[i])]
    /\ steps' = steps + 1
    /\ UNCHANGED <<treeVars, refreshed, unitVars>>

\* A click on the fullscreen button; the fullscreenchange event that follows
\* finds this.isFullscreen already set and does nothing.
ToggleFullscreen(i, m) ==
    /\ steps < MaxViewSteps
    /\ Rendered(i)
    /\ \A j \in Instances \ {i} : ~transform[j].isFullscreen
    /\ transform' = [transform EXCEPT ![i] = toggleFullscreen(@, m)]
    /\ fit' = [fit EXCEPT ![i] =
                  IF transform[i].isFullscreen THEN NoFit ELSE Fitted(m, renderMode[i])]
    /\ steps' = steps + 1
    /\ UNCHANGED <<treeVars, refreshed, unitVars>>

\* The fullscreenchange event when the user leaves fullscreen with Escape.
FullscreenChange(i, m) ==
    /\ steps < MaxViewSteps
    /\ Rendered(i)
    /\ transform[i].isFullscreen
    /\ ViewStep(i, handleFullscreenChange(transform[i], FALSE, m), FALSE)

MouseDown(i, p) ==
    /\ steps < MaxViewSteps
    /\ Rendered(i)
    /\ ViewStep(i, mousedown(transform[i], p[1], p[2]), TRUE)

MouseMove(i, p) ==
    /\ steps < MaxViewSteps
    /\ Rendered(i)
    /\ transform[i].isDragging
    /\ ViewStep(i, mousemove(transform[i], p[1], p[2]), FALSE)

\* mouseup or mouseleave
MouseUp(i) ==
    /\ steps < MaxViewSteps
    /\ Rendered(i)
    /\ transform[i].isDragging
    /\ ViewStep(i, mouseup(transform[i]), TRUE)

\* A click on the label of the drawn node k, a node with children.  No
\* listener is attached to the label: mousedown returns at once for a text
\* target, mouseup clears isDragging, and the click listener of the svg does
\* nothing for a target that is not the svg.
ClickLabel(i, k) ==
    /\ steps < MaxViewSteps
    /\ Rendered(i)
    /\ \E d \in 1..Len(view[i].drawing.nodes) : view[i].drawing.nodes[d].node = k
    /\ HasChildren(root[i].nodes, k)
    /\ ViewStep(i, mouseup(transform[i]), TRUE)

\* MindMapRenderer.updateAllColors(): every instance refreshes.
UpdateAllColors ==
    /\ steps < MaxViewSteps
    /\ \E i \in Instances : Rendered(i)
    /\ view' = [i \in Instances |->
                   IF Rendered(i) THEN Refreshed(i, root[i], renderMode[i]) ELSE view[i]]
    /\ transform' = [i \in Instances |->
                        IF Rendered(i) THEN refresh(transform[i]) ELSE transform[i]]
    /\ refreshed' = [i \in Instances |->
                        IF Rendered(i) THEN RefreshOf(i) ELSE refreshed[i]]
    /\ steps' = steps + 1
    /\ UNCHANGED <<store, alive, loaded, source, root, renderMode, parsed, parsedDone,
                   fresh, toggles, fit, unitVars>>

\* The view specification: one rendered document, wheel and pinch zoom
\* enabled in the settings.
InitView ==
    /\ store = <<>>
    /\ alive = [i \in Instances |-> i = "A"]
    /\ loaded = [i \in Instances |-> FALSE]
    /\ source = [i \in Instances |-> IF i = "A" THEN DocTitleList ELSE <<>>]
    /\ root = [i \in Instances |-> NullTree]
    /\ renderMode = [i \in Instances |-> DEFAULT_SETTINGS.defaultRenderMode]
    /\ view = [i \in Instances |-> EmptyView]
    /\ fresh = [i \in Instances |-> FALSE]
    /\ parsed = NullTree
    /\ parsedDone = FALSE
    /\ toggles = {}
    /\ steps = 0
    /\ transform = [i \in Instances |-> NewTransform]
    /\ fit = [i \in Instances |-> NoFit]
    /\ refreshed = [i \in Instances |-> NoRefresh]
    /\ settings = [DEFAULT_SETTINGS EXCEPT !.enableWheelZoom = TRUE,
                                           !.enablePinchZoom = TRUE]
    /\ NoUnits

NextView ==
    \/ \E m \in ViewMeasurements : OnLoad("A", m)
    \/ \E k \in 1..Len(root["A"].nodes) : ToggleNode("A", k)
    \/ ExpandAll("A")
    \/ CollapseAll("A")
    \/ \E mode \in RenderModes : SetRenderMode("A", mode)
    \/ UpdateAllColors
    \/ \E k \in 1..Len(root["A"].nodes) : ClickLabel("A", k)
    \/ \E factor \in {Q(6, 5), Q(4, 5)} : ZoomButton("A", factor)
    \/ \E dy \in BOOLEAN, ctrl \in BOOLEAN : Wheel("A", dy, ctrl, WheelPoint)
    \/ GestureStart("A")
    \/ \E e \in GestureScales : GestureChange("A", e, WheelPoint)
    \/ \E d \in PinchDistances : TouchStart("A", d)
    \/ \E d \in PinchDistances : TouchMove("A", d, WheelPoint)
    \/ \E level \in ZoomLevelChoices : SelectZoomLevel("A", level)
    \/ \E m \in ViewMeasurements : ResetZoom("A", m)
    \/ \E m \in {TallMeasurement, WideMeasurement} : ToggleFullscreen("A", m)
    \/ FullscreenChange("A", DefaultMeasurement)
    \/ \E p \in Points : MouseDown("A", p)
    \/ \E p \in Points : MouseMove("A", p)
    \/ MouseUp("A")

ViewSpec == InitView /\ [][NextView]_vars

\* The fitting specification: centerTree on every measurement of
\* FitMeasurements, in both render modes, at the first render and at a reset.
InitFit ==
    /\ store = <<>>
    /\ alive = [i \in Instances |-> i = "A"]
    /\ loaded = [i \in Instances |-> FALSE]
    /\ source = [i \in Instances |-> IF i = "A" THEN DocTitleList ELSE <<>>]
    /\ root = [i \in Instances |-> NullTree]
    /\ renderMode \in {[i \in Instances |-> mode] : mode \in RenderModes}
    /\ view = [i \in Instances |-> EmptyView]
    /\ fresh = [i \in Instances |-> FALSE]
    /\ parsed = NullTree
    /\ parsedDone = FALSE
    /\ toggles = {}
    /\ steps = 0
    /\ transform = [i \in Instances |-> NewTransform]
    /\ fit = [i \in Instances |-> NoFit]
    /\ refreshed = [i \in Instances |-> NoRefresh]
    /\ settings = DEFAULT_SETTINGS
    /\ NoUnits

NextFit ==
    \/ \E m \in FitMeasurements : OnLoad("A", m)
    \/ \E m \in FitMeasurements : ResetZoom("A", m)

FitSpec == InitFit /\ [][NextFit]_vars

---------------------------------------------------------------------------
(* State machine: the settings tab and the text measurement *)

\* The user types value into the 'Note panel width' field.
SetNotePanelWidth(value) ==
    /\ settings' = onChangeNotePanelWidth(settings, value)
    /\ entered' = value
    /\ UNCHANGED <<treeVars, viewVars, steps, measured>>

NextSettings == \E value \in WidthTexts : SetNotePanelWidth(value)

SettingsSpec == Init /\ [][NextSettings]_vars

\* The width of one label is computed.
Measure(text, depth) ==
    /\ measured' = [text |-> text, depth |-> depth,
                    width |-> calculateTextWidth(text, depth)]
    /\ UNCHANGED <<treeVars, viewVars, steps, settings, entered>>

\* One label is measured in a run.
NextMeasure ==
    /\ measured.text = <<>>
    /\ \E text \in LabelTexts, depth \in LabelDepths : Measure(text, depth)

MeasureSpec == Init /\ [][NextMeasure]_vars

---------------------------------------------------------------------------
(* Vocabulary of the properties *)

\* The lines of the input text of the parser specification.
InputLines == Split(source["A"])

\* A line that is empty or holds only whitespace.
IsBlank(line) == \A c \in 1..Len(line) : line[c] \in WS

\* A line whose first non-whitespace characters are at least n '#' markers.
StartsWithMarkers(line, n) ==
    \E c \in 1..Len(line) :
        /\ \A b \in 1..(c - 1) : line[b] \in WS
        /\ c + n - 1 <= Len(line)
        /\ \A b \in c..(c + n - 1) : line[b] = "#"

\* A line whose first non-whitespace characters are at least n '#' markers,
\* the last marker being followed by a whitespace character.
StartsWithMarkersAndSpace(line, n) ==
    \E c \in 1..Len(line) : \E m \in n..Len(line) :
        /\ \A b \in 1..(c - 1) : line[b] \in WS
        /\ c + m <= Len(line)
        /\ \A b \in c..(c + m - 1) : line[b] = "#"
        /\ line[c + m] \in WS

\* A bullet-list line: optional whitespace, '-' or '*', a whitespace character.
IsBulletLine(line) ==
    \E c \in 1..(Len(line) - 1) :
        /\ \A b \in 1..(c - 1) : line[b] \in WS
        /\ line[c] \in {"-", "*"}
        /\ line[c + 1] \in WS

\* The proper ancestors of node k in the tree t.
RECURSIVE Ancestors(_, _)
Ancestors(t, k) ==
    IF k = t.root THEN {}
    ELSE {t.nodes[k].parent} \cup Ancestors(t, t.nodes[k].parent)

\* The nodes of t in pre-order, children in list order.
RECURSIVE PreOrder(_, _), PreOrderAll(_, _)
PreOrder(ns, n) == <<n>> \o PreOrderAll(ns, Children(ns, n))

PreOrderAll(ns, children) ==
    IF children = <<>> THEN <<>>
    ELSE PreOrder(ns, Head(children)) \o PreOrderAll(ns, Tail(children))

---------------------------------------------------------------------------
(* C1 *)

\* C1 (as claimed): for every text that is empty or consists only of blank
\* lines, the parser returns null (no tree), and the renderer then shows the
\* placeholder and draws no node.
C1_BlankTextGivesNoTree ==
    (\A l \in 1..Len(InputLines) : IsBlank(InputLines[l])) =>
        /\ parsedDone => parsed = NullTree
        /\ loaded["A"] => /\ root["A"] = NullTree
                          /\ view["A"].placeholder
                          /\ view["A"].drawing.nodes = <<>>

---------------------------------------------------------------------------
(* C6 *)

\* The ids of the nodes of a tree are pairwise distinct.
UniqueIds(t) ==
    \A k1, k2 \in TreeNodes(t) : k1 # k2 => t.nodes[k1].id # t.nodes[k2].id

\* C6: in every tree returned by the parser (Heading Mode or List Mode), no
\* two distinct nodes have the same id, whatever their texts, levels or
\* indents are.
C6_IdsUnique ==
    /\ parsedDone => UniqueIds(parsed)
    /\ loaded["A"] => UniqueIds(root["A"])

\* Two nodes of the parsed tree with the same text and the same level/indent
\* (equal id but for the sequence index), and a tree with the synthetic root.
C6_Witness ==
    /\ parsedDone
    /\ \E k1, k2 \in TreeNodes(parsed) :
          /\ k1 # k2
          /\ parsed.nodes[k1].text = parsed.nodes[k2].text
          /\ parsed.nodes[k1].parent = parsed.nodes[k2].parent
          /\ parsed.nodes[parsed.root].id = "root"

---------------------------------------------------------------------------
(* C7 *)

\* The tree the exported parser returns when it uses Heading Mode exactly
\* when useHeadings holds, and List Mode otherwise.
ParsedAs(useHeadings) ==
    IF useHeadings THEN parseHeadingsMode(InputLines, store)
    ELSE parseListMode(InputLines, store)

\* C7 (as claimed): the parser uses Heading Mode exactly when (a) some line
\* begins with two or more '#' markers, or (b) some line is a heading-marker
\* line and no line is a bullet-list line; a heading-marker line being a line
\* the Heading-Mode scanner accepts as a heading (markers, optional space,
\* text).  In every other case it uses List Mode.
C7_ModeByScannerHeadings ==
    parsedDone =>
        parsed = ParsedAs(
            \/ \E l \in 1..Len(InputLines) : StartsWithMarkers(InputLines[l], 2)
            \/ /\ \E l \in 1..Len(InputLines) : StartsWithMarkers(InputLines[l], 1)
               /\ ~\E l \in 1..Len(InputLines) : IsBulletLine(InputLines[l]))

\* C7 (amended): the parser uses Heading Mode exactly when (a) some line
\* begins with two or more '#' markers followed by a whitespace character,
\* or (b) some line begins with one or more '#' markers followed by a
\* whitespace character and no line is a bullet-list line; in every other
\* case (also when the only '#' lines have no whitespace after the markers)
\* it uses List Mode.
C7_ModeSelection ==
    parsedDone =>
        parsed = ParsedAs(
            \/ \E l \in 1..Len(InputLines) : StartsWithMarkersAndSpace(InputLines[l], 2)
            \/ /\ \E l \in 1..Len(InputLines) : StartsWithMarkersAndSpace(InputLines[l], 1)
               /\ ~\E l \in 1..Len(InputLines) : IsBulletLine(InputLines[l]))

\* Heading Mode was used although a bullet line is present, on a text that
\* also has a '#' line without whitespace after its markers.
C7_Witness ==
    /\ parsedDone
    /\ parsed = parseHeadingsMode(InputLines, store)
    /\ \E l \in 1..Len(InputLines) : IsBulletLine(InputLines[l])
    /\ \E l \in 1..Len(InputLines) :
          /\ StartsWithMarkers(InputLines[l], 1)
          /\ ~StartsWithMarkersAndSpace(InputLines[l], 1)

---------------------------------------------------------------------------
(* C8 *)

\* The first non-blank line of the input, 0 when all lines are blank.
FirstNonBlank ==
    IF \A l \in 1..Len(InputLines) : IsBlank(InputLines[l]) THEN 0
    ELSE CHOOSE l \in 1..Len(InputLines) :
             /\ ~IsBlank(InputLines[l])
             /\ \A b \in 1..(l - 1) : IsBlank(InputLines[b])

\* The input has an explicit '#' title line: its first non-blank line starts
\* with '#'.
HasTitleLine ==
    FirstNonBlank # 0 /\ StartsWithMarkers(InputLines[FirstNonBlank], 1)

\* C8 (as claimed): in List Mode the synthetic root is elided exactly when it
\* has exactly one child and the input has no explicit '#' title line: then
\* that single bullet is the returned root; whenever an explicit title line
\* is present (whatever its text), or the root has zero or several children,
\* the returned root is the synthetic root (id 'root') with all top-level
\* bullets as its children.
C8_RootElision ==
    (parsedDone /\ SelectMode(InputLines) = "list") =>
        LET top == Children(parsed.nodes, 1)
        IN  IF Len(top) = 1 /\ ~HasTitleLine
            THEN parsed.root = top[1]
            ELSE /\ parsed.root = 1
                 /\ parsed.nodes[1].id = "root"
                 /\ Children(parsed.nodes, parsed.root) = top

---------------------------------------------------------------------------
(* C9 *)

\* The lines after line l up to the next line the heading scanner accepts
\* (or the end of the input) that are not blank, trimmed.
RECURSIVE NoteLinesAfter(_)
NoteLinesAfter(l) ==
    IF l + 1 > Len(InputLines) \/ StartsWithMarkers(InputLines[l + 1], 1) THEN <<>>
    ELSE (IF IsBlank(InputLines[l + 1]) THEN <<>> ELSE <<Trim(InputLines[l + 1])>>)
             \o NoteLinesAfter(l + 1)

\* C9 (as claimed): in Heading Mode the note of each heading node is exactly
\* the trimmed, newline-joined sequence of the non-blank, non-heading lines
\* between that heading and the next heading (or the end of input); a heading
\* with no such lines has no note, and no line before a heading is ever part
\* of that heading's note.
C9_HeadingNotes ==
    (parsedDone /\ SelectMode(InputLines) = "headings") =>
        \A k \in TreeNodes(parsed) :
            LET n   == parsed.nodes[k]
                exp == NoteLinesAfter(n.line)
            IN  /\ n.hasNote <=> exp # <<>>
                /\ n.hasNote => n.note = Trim(Join(exp, "\n"))

---------------------------------------------------------------------------
(* C2 *)

\* The nodes of t that have a collapsed proper ancestor; the root counts as
\* an ancestor only when withRoot holds.
HiddenNodes(t, withRoot) ==
    {k \in TreeNodes(t) :
        \E a \in Ancestors(t, k) :
            t.nodes[a].collapsed /\ (withRoot \/ a # t.root)}

\* The nodes drawn in the view of instance i.
DrawnNodes(i) ==
    {view[i].drawing.nodes[d].node : d \in 1..Len(view[i].drawing.nodes)}

\* C2 (as claimed): in both render modes the number of nodes drawn equals the
\* number of nodes of the tree minus the number of nodes that have a
\* collapsed proper ancestor, the root counting as an ancestor.
C2_VisibleCountAnyAncestor ==
    \A i \in Instances :
        Rendered(i) =>
            Len(view[i].drawing.nodes)
                = Cardinality(TreeNodes(root[i])) - Cardinality(HiddenNodes(root[i], TRUE))

\* C2 (amended): in both render modes the number of nodes drawn equals the
\* number of nodes of the tree minus the number of nodes that have a
\* collapsed proper ancestor other than the root; the collapsed flag of the
\* root hides nothing.  The nodes drawn are exactly the other nodes, each
\* drawn once.
C2_VisibleCount ==
    \A i \in Instances :
        Rendered(i) =>
            /\ Len(view[i].drawing.nodes)
                  = Cardinality(TreeNodes(root[i])) - Cardinality(HiddenNodes(root[i], FALSE))
            /\ DrawnNodes(i) = TreeNodes(root[i]) \ HiddenNodes(root[i], FALSE)

\* A drawn tree whose root is collapsed and has children, in which a node is
\* hidden under a collapsed node that is not the root.
C2_Witness ==
    \E i \in Instances :
        /\ Rendered(i)
        /\ root[i].nodes[root[i].root].collapsed
        /\ HasChildren(root[i].nodes, root[i].root)
        /\ HiddenNodes(root[i], FALSE) # {}
        /\ Len(view[i].drawing.nodes) > 1

---------------------------------------------------------------------------
(* C5 *)

\* The root of instance i has children and is collapsed.
RootCollapsed(i) ==
    /\ Rendered(i)
    /\ HasChildren(root[i].nodes, root[i].root)
    /\ root[i].nodes[root[i].root].collapsed

\* C5 (as claimed): whenever the root has children and is collapsed, the
\* view holds no connector and exactly one node, the root, with a collapse
\* indicator showing the number of the root's direct children.
C5_CollapsedRootDrawnAlone ==
    \A i \in Instances :
        RootCollapsed(i) =>
            LET t == root[i]
                d == view[i].drawing
            IN  /\ d.connectors = <<>>
                /\ Len(d.nodes) = 1
                /\ d.nodes[1].node = t.root
                /\ d.circles = <<createXMindCircle(t.root,
                                     Len(Children(t.nodes, t.root)), TRUE)>>

\* C5 (amended): whenever the root has children and is collapsed, a render
\* in either mode still draws the root and every direct child of the root,
\* each child with one connector from the root, and draws no collapse
\* indicator for the root.
C5_CollapsedRootStillDrawsChildren ==
    \A i \in Instances :
        RootCollapsed(i) =>
            LET t    == root[i]
                d    == view[i].drawing
                kids == {k \in TreeNodes(t) : t.nodes[k].parent = t.root /\ k # t.root}
            IN  /\ d.nodes[1].node = t.root
                /\ d.nodes[1].side = "root"
                /\ \A k \in kids :
                      /\ Cardinality({x \in 1..Len(d.nodes) : d.nodes[x].node = k}) = 1
                      /\ Cardinality({x \in 1..Len(d.connectors) :
                                         d.connectors[x] = [from |-> t.root, to |-> k]}) = 1
                /\ \A x \in 1..Len(d.circles) : d.circles[x].node # t.root

\* A collapsed root with two or more children drawn in the radial mode, after
\* collapseAll has collapsed every node that has children.
C5_Witness ==
    \E i \in Instances :
        /\ RootCollapsed(i)
        /\ renderMode[i] = "clockwise"
        /\ Len(Children(root[i].nodes, root[i].root)) >= 2
        /\ \A k \in TreeNodes(root[i]) :
              HasChildren(root[i].nodes, k) => root[i].nodes[k].collapsed
        /\ Len(view[i].drawing.connectors) >= 2

---------------------------------------------------------------------------
(* C3 *)

\* The tree of instance j is the result of a parse, and the store has not
\* been written since that parse.
FreshParse(j) == alive[j] /\ loaded[j] /\ fresh[j]

\* The nodes of t made from line l of the text.
NodesAtLine(t, l) == {k \in TreeNodes(t) : t.nodes[k].line = l}

\* C3: after a toggle has set the collapsed flag of a node to v, and while
\* no other write of the store for the id of that node has happened, every
\* later parse of the same source text yields a tree in which the node at
\* the same source position exists and has collapsed = v.
C3_ToggleSurvivesReparse ==
    \A j \in Instances :
        FreshParse(j) =>
            \A x \in toggles :
                x.src = source[j] =>
                    /\ NodesAtLine(root[j], x.line) # {}
                    /\ \A k \in NodesAtLine(root[j], x.line) :
                          /\ root[j].nodes[k].collapsed = x.v
                          /\ HasChildren(root[j].nodes, k)

\* A parse of a text after a toggle has collapsed a node of that text.
C3_Witness ==
    \E j \in Instances :
        /\ FreshParse(j)
        /\ \E x \in toggles :
              /\ x.src = source[j]
              /\ x.v
              /\ NodesAtLine(root[j], x.line) # {}

---------------------------------------------------------------------------
(* C4 *)

\* The ids, the collapsed flags, the depths and the numbers of children of
\* the nodes of t, in pre-order: the last two give the shape of the tree.
PreOrderOf(t) ==
    LET p == PreOrder(t.nodes, t.root)
    IN  [x \in 1..Len(p) |->
            [id        |-> t.nodes[p[x]].id,
             collapsed |-> t.nodes[p[x]].collapsed,
             depth     |-> Cardinality(Ancestors(t, p[x])),
             children  |-> Len(Children(t.nodes, p[x]))]]

---------------------------------------------------------------------------
(* C10 *)

\* The first l lines of the texts a and b are the same.
SamePrefix(a, b, l) ==
    /\ l <= Len(Split(a)) /\ l <= Len(Split(b))
    /\ SubSeq(Split(a), 1, l) = SubSeq(Split(b), 1, l)

\* C10 (as claimed): after a toggle has collapsed the node n, a parse of a
\* text that still holds the line of n, whatever lines were inserted,
\* deleted or changed before or after it, yields n collapsed as long as n
\* still has children.
C10_ContinuityAnyEdit ==
    \A j \in Instances :
        FreshParse(j) =>
            \A x \in toggles :
                x.v =>
                    \A k \in TreeNodes(root[j]) :
                        LET n == root[j].nodes[k]
                        IN  ( /\ n.line >= 1
                              /\ Split(source[j])[n.line] = Split(x.src)[x.line]
                              /\ HasChildren(root[j].nodes, k) )
                                => n.collapsed

\* C10 (amended): after a toggle has set the collapsed flag of the node n to
\* v, a parse of a text that differs from the toggled one only in lines
\* after the line of n, and that is parsed in the same mode, yields n at the
\* same line with the same id and collapsed = v.
C10_ContinuityEditsAfter ==
    \A j \in Instances :
        FreshParse(j) =>
            \A x \in toggles :
                ( /\ SamePrefix(source[j], x.src, x.line)
                  /\ SelectMode(Split(source[j])) = SelectMode(Split(x.src)) )
                    => \E k \in NodesAtLine(root[j], x.line) :
                          /\ root[j].nodes[k].id = x.id
                          /\ root[j].nodes[k].collapsed = x.v

\* A parse of a text edited after the line of a node that a toggle collapsed.
C10_Witness ==
    \E j \in Instances :
        /\ FreshParse(j)
        /\ \E x \in toggles :
              /\ x.v
              /\ source[j] # x.src
              /\ SamePrefix(source[j], x.src, x.line)
              /\ SelectMode(Split(source[j])) = SelectMode(Split(x.src))
              /\ \E k \in NodesAtLine(root[j], x.line) : root[j].nodes[k].collapsed

---------------------------------------------------------------------------
(* C11 *)

\* Instance i performs a toggle, an expandAll or a collapseAll (each of them
\* refreshes instance i: the steps without a refresh of i are set aside first).
WritesStore(i) ==
    /\ refreshed'[i].n = refreshed[i].n + 1
    /\ \/ \E k \in 1..Len(root[i].nodes) : ToggleNode(i, k)
       \/ ExpandAll(i)
       \/ CollapseAll(i)

\* C11: a toggle, an expandAll or a collapseAll performed in one instance
\* changes neither the tree of another instance (no collapsed flag of it)
\* nor its drawing, and a refresh of the other instance after the write
\* draws what it drew before; the other instance sees the write only in a
\* parse of its own.
C11_WritesStayLocal ==
    [][\A i \in Instances :
          WritesStore(i) =>
              \A j \in Instances \ {i} :
                  /\ root'[j] = root[j]
                  /\ view'[j] = view[j]
                  /\ Rendered(j) =>
                        view[j].drawing = Shown(RenderByMode(root'[j], renderMode'[j]))]_vars

\* An instance whose tree still has the flag of before a toggle that another
\* instance performed on the same text: the store and the tree differ.
C11_Witness ==
    \E j \in Instances :
        /\ Rendered(j)
        /\ \E x \in toggles :
              /\ x.src = source[j]
              /\ x.id \in DOMAIN store
              /\ store[x.id] = x.v
              /\ root[j].nodes[x.node].id = x.id
              /\ root[j].nodes[x.node].collapsed # x.v


---------------------------------------------------------------------------
(* Zoom range *)

\* C12: after any sequence of zoom button clicks, wheel and pinch zooms,
\* zoom-level selections, resets, view fittings and fullscreen exits, the
\* scale of a rendered instance lies between 0.1 and 5.
C12_ScaleInRange ==
    \A i \in Instances :
        Rendered(i) =>
            /\ QLe(MinScale, transform[i].scale)
            /\ QLe(transform[i].scale, MaxScale)

---------------------------------------------------------------------------
(* Note panel width *)

\* The number the width field holds, as parseInt reads it.
EnteredWidth == parseInt(entered)

InWidthRange(v) == v >= MinNotePanelWidth /\ v <= MaxNotePanelWidth

\* C13 (as stated): after a numeric input the stored notePanelWidth is the
\* input clamped to 200..800: an input below 200 stores 200, one above 800
\* stores 800.
C13_WidthClamped ==
    ~EnteredWidth.nan =>
        settings.notePanelWidth =
            IF EnteredWidth.v < MinNotePanelWidth THEN MinNotePanelWidth
            ELSE IF EnteredWidth.v > MaxNotePanelWidth THEN MaxNotePanelWidth
            ELSE EnteredWidth.v

\* C13 (amended): the stored notePanelWidth always lies in 200..800; an input
\* that parseInt reads as a number in 200..800 is stored, and every other
\* input (not a number, below 200, above 800) is ignored: the stored width
\* stays what it was.
C13_WidthAcceptedOrIgnored ==
    /\ [](InWidthRange(settings.notePanelWidth))
    /\ [][LET width == parseInt(entered')
          IN  settings'.notePanelWidth =
                  IF ~width.nan /\ InWidthRange(width.v)
                  THEN width.v
                  ELSE settings.notePanelWidth]_vars

\* An out-of-range number was entered after a width other than the default
\* had been stored, and the stored width is neither bound.
C13_Witness ==
    /\ ~EnteredWidth.nan
    /\ ~InWidthRange(EnteredWidth.v)
    /\ settings.notePanelWidth \notin
           {DEFAULT_SETTINGS.notePanelWidth, MinNotePanelWidth, MaxNotePanelWidth}

---------------------------------------------------------------------------
(* View fitting *)

\* The instances whose placement is the one the last fit computed.
FittedInstances == {i \in Instances : fit[i].done}

\* The size of the viewport the fit of instance i worked with.
ViewportWidth(i) == SvgWidth(fit[i].m)

ViewportHeight(i) == SvgHeight(fit[i].m)

BBox(i) == fit[i].m.bbox

\* C14: a fit yields scale = min(1, (viewportWidth - 80) / bbox.width,
\* (viewportHeight - 60) / bbox.height); the scale is at most 1 and the scaled
\* bounding box is at most viewportWidth - 80 wide and viewportHeight - 60 high.
C14_FitScale ==
    \A i \in FittedInstances :
        LET scale == transform[i].scale
            roomX == ViewportWidth(i) - FitMarginX
            roomY == ViewportHeight(i) - FitMarginY
        IN  /\ scale = QMin(One, QMin(Q(roomX, BBox(i).width),
                                      Q(roomY, BBox(i).height)))
            /\ QLe(scale, One)
            /\ QLe(QMul(QInt(BBox(i).width), scale), QInt(roomX))
            /\ QLe(QMul(QInt(BBox(i).height), scale), QInt(roomY))

\* A fit shrank a drawing that fits in width but not in height.
C14_Witness ==
    \E i \in FittedInstances :
        /\ QLt(transform[i].scale, One)
        /\ BBox(i).width <= ViewportWidth(i) - FitMarginX
        /\ QMul(QInt(BBox(i).height), transform[i].scale)
               = QInt(ViewportHeight(i) - FitMarginY)

\* The placement of the fitted drawing in the viewport of instance i.
LeftEdge(i) ==
    QAdd(transform[i].translateX, QMul(QInt(BBox(i).x), transform[i].scale))

CentreX(i) ==
    QAdd(transform[i].translateX,
         QMul(QAdd(QInt(BBox(i).x), Q(BBox(i).width, 2)), transform[i].scale))

CentreY(i) ==
    QAdd(transform[i].translateY,
         QMul(QAdd(QInt(BBox(i).y), Q(BBox(i).height, 2)), transform[i].scale))

VerticallyCentred(i) == CentreY(i) = Q(ViewportHeight(i), 2)

HorizontallyCentred(i) == CentreX(i) = Q(ViewportWidth(i), 2)

LeftAligned(i) == LeftEdge(i) = QInt(FitLeft)

\* C15 (as stated): the translation of a fit depends on the render mode: in
\* outline mode the content is centred vertically with its left edge at the
\* fixed margin, in radial mode it is centred vertically and horizontally.
C15_FitByMode ==
    \A i \in FittedInstances :
        /\ VerticallyCentred(i)
        /\ fit[i].mode = "logic" => LeftAligned(i)
        /\ fit[i].mode = "clockwise" => HorizontallyCentred(i)

\* C15 (amended): in both render modes a fit centres the scaled content
\* vertically and puts its left edge at the horizontal margin of 40.
C15_FitLeftAligned ==
    \A i \in FittedInstances :
        /\ VerticallyCentred(i)
        /\ LeftAligned(i)

\* A fit in radial mode left the content off the horizontal centre.
C15_Witness ==
    \E i \in FittedInstances :
        /\ fit[i].mode = "clockwise"
        /\ renderMode[i] = "clockwise"
        /\ ~HorizontallyCentred(i)
        /\ QLt(transform[i].scale, One)

---------------------------------------------------------------------------
(* Clicks on a node *)

\* The step toggled node k of instance i: the flag is flipped, the new value
\* is in the store under the node's id, and the tree was laid out again.
Toggled(i, k) ==
    LET n == root[i].nodes[k]
    IN  /\ root'[i].nodes[k].collapsed = ~n.collapsed
        /\ n.id \in DOMAIN store'
        /\ store'[n.id] = ~n.collapsed
        /\ refreshed'[i].n = refreshed[i].n + 1
        /\ view'[i].drawing = Shown(RenderByMode(root'[i], renderMode'[i]))

\* C16: for every drawn node with children, in both render modes, a click on
\* its label as well as a click on its collapse indicator flips the node's
\* collapsed flag, writes the new value to the store under the node's id and
\* is followed by a full relayout of the tree.
C16_ClickToggles ==
    [][\A i \in Instances :
          \A k \in 1..Len(root[i].nodes) :
              (steps' = steps + 1 /\ (ClickLabel(i, k) \/ ToggleNode(i, k)))
                  => Toggled(i, k)]_vars

---------------------------------------------------------------------------
(* Text measurement *)

\* The two texts of the example, two CJK characters and four Latin letters.
ZhongWen == <<"U+4E2D", "U+6587">>

Abcd == <<"a", "b", "c", "d">>

\* The measured label consists of CJK characters only.
MeasuredAllCJK ==
    /\ measured.text # <<>>
    /\ \A n \in 1..Len(measured.text) : measured.text[n] \in CJKChars

\* The texts without CJK characters that have as many characters as the
\* measured label.
NarrowTextsOfSameLength == [1..Len(measured.text) -> LabelChars \ CJKChars]

\* C17 (as stated): the width of the two CJK characters at font size 13 (a
\* label at depth 0) is strictly greater than the width of "abcd" at 13.
C17_TwoCJKWiderThanAbcd ==
    (measured.text = ZhongWen /\ measured.depth = 0) =>
        measured.width > measure(Abcd, 13)

\* C17 (amended): a label of CJK characters only is strictly wider than every
\* label of as many characters none of which is CJK, at the same font size;
\* the two CJK characters at 13 are 42 wide, less than the 44.6 of "abcd".
C17_CJKWiderAtEqualLength ==
    /\ MeasuredAllCJK =>
           \A t \in NarrowTextsOfSameLength :
               measured.width > calculateTextWidth(t, measured.depth)
    /\ (measured.text = ZhongWen /\ measured.depth = 0) =>
           /\ measured.width = 42 * Hundredths
           /\ measure(Abcd, 13) = 4460
           /\ measured.width < measure(Abcd, 13)

\* The two CJK characters were measured at font size 13.
C17_Witness ==
    /\ measured.text = ZhongWen
    /\ measured.depth = 0
    /\ FontSizeOfDepth(measured.depth) = 13
    /\ measured.width = measure(ZhongWen, 13)

---------------------------------------------------------------------------
(* Refresh *)

\* C18: a refresh (after a collapse toggle, expandAll, collapseAll, a switch
\* of the render mode or a colour update) leaves scale, translateX and
\* translateY of the instance as they were before it.
C18_RefreshKeepsPlacement ==
    [][\A i \in Instances :
          refreshed'[i].n # refreshed[i].n =>
              Placement(transform'[i]) = Placement(transform[i])]_vars

\* A view that was zoomed by hand has been refreshed and still has the
\* placement it had before the refresh.
C18_Witness ==
    \E i \in Instances :
        /\ refreshed[i].n > 0
        /\ ~fit[i].done
        /\ refreshed[i].from = Placement(transform[i])
        /\ transform[i].scale # One
        /\ transform[i].translateX # Zero

---------------------------------------------------------------------------
(* Writers of the store *)

\* The store or the tree of a loaded instance differs after the step.
StoreOrFlagsChange ==
    \/ store' # store
    \/ \E i \in Instances : loaded[i] /\ root'[i] # root[i]

\* Every entry of the store that the step changed or added holds, under the
\* id of a node of instance i, the flag that node has after the step.
OnlySetsEntries(i) ==
    \A id \in DOMAIN store' :
        (id \notin DOMAIN store \/ store'[id] # store[id]) =>
            \E k \in 1..Len(root'[i].nodes) :
                /\ root'[i].nodes[k].id = id
                /\ root'[i].nodes[k].collapsed = store'[id]

\* C19: the store is changed only by toggle, expandAll and collapseAll steps,
\* which only set entries; parsing, drawing, refreshing, fitting, zooming,
\* panning and fullscreen steps leave every entry of the store and every
\* node's collapsed flag as they were, and no step removes a key.
C19_StoreWrittenByTogglesOnly ==
    [][/\ DOMAIN store \subseteq DOMAIN store'
       /\ StoreOrFlagsChange =>
              \E i \in Instances : WritesStore(i) /\ OnlySetsEntries(i)]_vars

\* The store holds the toggles made, and the view was zoomed, panned or
\* fitted after the last write.
C19_Witness ==
    \E i \in Instances :
        /\ toggles # {}
        /\ \A x \in toggles : x.id \in DOMAIN store /\ store[x.id] = x.v
        /\ refreshed[i].n > 0
        /\ refreshed[i].from # Placement(transform[i])

---------------------------------------------------------------------------
(* Nesting in List Mode *)

\* The exported parser has parsed the text of slot A in List Mode.
ParsedInListMode == parsedDone /\ SelectMode(InputLines) = "list"

\* The nodes made from lines (node 1 is the synthetic root).
LineNodes == 2..Len(parsed.nodes)

\* The length of the run of spaces and tabs a line starts with.
LeadingRun(line) ==
    CHOOSE n \in 0..Len(line) :
        /\ \A c \in 1..n : line[c] \in {" ", "\t"}
        /\ n < Len(line) => line[n + 1] \notin {" ", "\t"}

\* The indent width of the line of node k: a space counts 1, a tab 4.
IndentWidth(k) ==
    LET line == InputLines[parsed.nodes[k].line]
        run  == 1..LeadingRun(line)
    IN  Cardinality({c \in run : line[c] = " "})
            + 4 * Cardinality({c \in run : line[c] = "\t"})

\* The nodes of the lines before the line of node k that have a strictly
\* smaller indent width.
SmallerBefore(k) ==
    {j \in LineNodes : /\ parsed.nodes[j].line < parsed.nodes[k].line
                       /\ IndentWidth(j) < IndentWidth(k)}

\* C20: in List Mode the parent of every node is the node of the nearest
\* preceding line with a strictly smaller indent width (space 1, tab 4), or
\* the synthetic root when there is none; so a child of a line node has a
\* strictly larger indent than its parent, and children are in source order.
C20_ParentIsNearestSmallerIndent ==
    ParsedInListMode =>
        /\ \A k \in LineNodes :
              LET parent == parsed.nodes[k].parent
              IN  /\ SmallerBefore(k) = {} => parent = 1
                  /\ SmallerBefore(k) # {} =>
                        /\ parent \in SmallerBefore(k)
                        /\ \A j \in SmallerBefore(k) :
                               parsed.nodes[j].line <= parsed.nodes[parent].line
                  /\ parent # 1 => IndentWidth(parent) < IndentWidth(k)
        /\ \A p \in 1..Len(parsed.nodes) :
              LET children == Children(parsed.nodes, p)
              IN  \A a, b \in 1..Len(children) :
                      a < b => parsed.nodes[children[a]].line
                                   < parsed.nodes[children[b]].line

\* A node whose parent is neither the node of the line before it nor the
\* synthetic root: a deeper node lies between the two.
C20_Witness ==
    /\ ParsedInListMode
    /\ \E k \in LineNodes :
          /\ parsed.nodes[k].parent \notin {1, k - 1}
          /\ IndentWidth(k - 1) > IndentWidth(k)
          /\ IndentWidth(parsed.nodes[k].parent) < IndentWidth(k)

---------------------------------------------------------------------------
(* Nesting in Heading Mode *)

\* The exported parser has parsed the text of slot A in Heading Mode.
ParsedInHeadingMode == parsedDone /\ SelectMode(InputLines) = "headings"

\* The lines of the text that are headings: '#' is their first character
\* after the leading whitespace.
HeadingLinesOf(lines) ==
    {i \in 1..Len(lines) : Trim(lines[i]) # <<>> /\ Trim(lines[i])[1] = "#"}

HeadingLineNumbers == HeadingLinesOf(InputLines)

\* The depths of the headings of the nodes of the parse: the number of '#'
\* markers of the line of each.
HeadingDepths ==
    LET lines == InputLines
    IN  [k \in 1..Len(parsed.nodes) |->
            RunLen(Trim(lines[parsed.nodes[k].line]), {"#"})]

\* The headings before node k that are strictly less deep, depth being the
\* depths of the headings.
ShallowerBefore(depth, k) ==
    {j \in 1..(k - 1) : depth[j] < depth[k]}

\* C21: in Heading Mode the first heading is the root; every later heading
\* is the last child of the nearest preceding heading of strictly smaller
\* depth (the heading left on top of the stack), or of the root when there
\* is none; for every sequence of levels the result is one tree that holds
\* every heading once.
C21_HeadingNesting ==
    ParsedInHeadingMode =>
        LET headings == HeadingLineNumbers
            depth    == HeadingDepths
        IN
        /\ headings # {} =>
              /\ parsed.root = 1
              /\ parsed.nodes[1].line = CHOOSE i \in headings :
                                            \A j \in headings : i <= j
        /\ headings = {} => parsed = NullTree
        /\ \A i \in headings :
              Cardinality({k \in 1..Len(parsed.nodes) : parsed.nodes[k].line = i}) = 1
        /\ \A k \in 1..Len(parsed.nodes) : parsed.nodes[k].line \in headings
        /\ \A k \in 2..Len(parsed.nodes) :
              LET parent   == parsed.nodes[k].parent
                  children == Children(parsed.nodes, parent)
                  before   == ShallowerBefore(depth, k)
              IN  /\ before = {} => parent = 1
                  /\ before # {} =>
                        /\ parent \in before
                        /\ \A j \in before : j <= parent
                  /\ \A c \in 1..Len(children) :
                        children[c] < k \/ children[c] = k \/
                            parsed.nodes[children[c]].line > parsed.nodes[k].line
                  /\ 1 \in Ancestors(parsed, k)

\* A heading no deeper than the first one was attached to the root after the
\* stack had been emptied, and a later heading was nested under it.
C21_Witness ==
    /\ ParsedInHeadingMode
    /\ \E k \in 2..Len(parsed.nodes) :
          /\ HeadingDepths[k] <= HeadingDepths[1]
          /\ parsed.nodes[k].parent = 1
          /\ \E c \in 2..Len(parsed.nodes) : parsed.nodes[c].parent = k

---------------------------------------------------------------------------
(* Subtree height *)

\* Node m is node n or lies below n with every node from its parent up to n
\* expanded: it is reached from n without passing a collapsed node.
RECURSIVE ShownUnder(_, _, _)
ShownUnder(ns, n, m) ==
    \/ m = n
    \/ /\ ns[m].parent # 0
       /\ ~ns[ns[m].parent].collapsed
       /\ ShownUnder(ns, n, ns[m].parent)

\* The nodes at which the subtree of n ends when collapsed nodes hide what is
\* below them: childless or collapsed, and reached from n.
EndNodes(ns, n) ==
    {m \in 1..Len(ns) :
        ShownUnder(ns, n, m) /\ (Len(Children(ns, m)) = 0 \/ ns[m].collapsed)}

\* The height of e end nodes stacked with the gap between neighbours.
StackHeight(e, unit, gap) == e * unit + (e - 1) * gap

\* The node array with every label replaced by the empty text.
WithoutLabels(ns) == [k \in 1..Len(ns) |-> [ns[k] EXCEPT !.text = <<>>]]

\* The render whose primitives the view of instance i shows.
LastRender(i) == RenderByMode(root[i], renderMode[i])

\* The view of instance i shows the primitives of the render of its tree in
\* its mode: the tree and the mode have not changed since the last render.
ShowsLastRender(i) == view[i].drawing = Shown(LastRender(i))

\* The boxes of the drawing of instance i, in creation order, each with its
\* place.
Boxes(i) ==
    LET bs == LastRender(i).nodes
    IN  [d \in 1..Len(bs) |->
            [node |-> bs[d].node, side |-> bs[d].side, parent |-> bs[d].parent,
             depth |-> bs[d].depth, x |-> bs[d].at["x"], y |-> bs[d].at["y"],
             width |-> bs[d].at["width"], height |-> bs[d].at["height"],
             span |-> bs[d].at["span"]]]

\* C22: the subtree height is 24 (28) for a childless or collapsed node and
\* otherwise the sum of the children's subtree heights plus 20 (8) per pair
\* of neighbours; it is never below 24 (28) and does not depend on the
\* labels.  The radial height is the height every drawn child is allotted.
C22_SubtreeHeight ==
    \A i \in Instances :
        Rendered(i) =>
            LET ns == root[i].nodes
            IN  /\ \A n \in 1..Len(ns) :
                      LET e == Cardinality(EndNodes(ns, n))
                      IN  /\ calculateTreeHeight(ns, n)
                                = StackHeight(e, TreeUnitHeight, TreeVerticalGap)
                          /\ calculateRadialMindMapTreeHeight(ns, n)
                                = StackHeight(e, RadialUnitHeight, RadialVerticalGap)
                          /\ calculateTreeHeight(ns, n) >= TreeUnitHeight
                          /\ calculateRadialMindMapTreeHeight(ns, n) >= RadialUnitHeight
                          /\ calculateTreeHeight(WithoutLabels(ns), n)
                                = calculateTreeHeight(ns, n)
                          /\ calculateRadialMindMapTreeHeight(WithoutLabels(ns), n)
                                = calculateRadialMindMapTreeHeight(ns, n)
                /\ ShowsLastRender(i)
                /\ LET bs == Boxes(i)
                   IN  \A d \in 2..Len(bs) :
                           bs[d].span
                               = Px(StackHeight(Cardinality(EndNodes(ns, bs[d].node)),
                                                RadialUnitHeight, RadialVerticalGap))

\* A drawn node with two children, one of them collapsed with a child of its
\* own: the node is 28 + 8 + 28 high.
C22_Witness ==
    \E i \in Instances :
        /\ Rendered(i)
        /\ \E n \in 1..Len(root[i].nodes) :
              LET children == Children(root[i].nodes, n)
              IN  /\ ~root[i].nodes[n].collapsed
                  /\ Len(children) = 2
                  /\ root[i].nodes[children[1]].collapsed
                  /\ Len(Children(root[i].nodes, children[1])) > 0
                  /\ calculateRadialMindMapTreeHeight(root[i].nodes, n)
                         = 2 * RadialUnitHeight + RadialVerticalGap
                  /\ \E d \in 1..Len(view[i].drawing.nodes) :
                         view[i].drawing.nodes[d].node = children[1]

---------------------------------------------------------------------------
(* Vertical stacking of siblings *)

\* The vertical interval allotted to the drawn node b.
Top(b) == b.y - b.span \div 2

Bottom(b) == b.y + b.span \div 2

\* The box of the tree node k among the boxes bs.
BoxOf(bs, k) == CHOOSE b \in {bs[d] : d \in 1..Len(bs)} : b.node = k

\* The boxes of the children of the drawn node p among the boxes bs, in
\* creation order, which is the order of node.children; and those of them on
\* one side.
ChildBoxes(bs, p) == SelectSeq(bs, LAMBDA b : b.parent = p)

ChildBoxesOn(bs, p, side) ==
    SelectSeq(bs, LAMBDA b : b.parent = p /\ b.side = side)

\* The boxes cs, children of the box p, are stacked from top to bottom in
\* their order with the gap between neighbours, the block is centred on the
\* anchor of p, and the allotted intervals are pairwise disjoint.
Stacked(cs, p) ==
    cs # <<>> =>
        /\ \A a \in 1..(Len(cs) - 1) :
              Top(cs[a + 1]) = Bottom(cs[a]) + Px(RadialVerticalGap)
        /\ Top(cs[1]) + Bottom(cs[Len(cs)]) = 2 * p.y
        /\ \A a, b \in 1..Len(cs) : a < b => Bottom(cs[a]) < Top(cs[b])

\* Every box of bs below the box c in the tree t lies inside the interval
\* of c.
Encloses(t, bs, c) ==
    \A d \in 1..Len(bs) :
        LET b == bs[d]
        IN  c.node \in Ancestors(t, b.node) =>
                /\ Top(c) <= b.y - b.height \div 2
                /\ b.y + b.height \div 2 <= Bottom(c)
                /\ Top(c) <= Top(b)
                /\ Bottom(b) <= Bottom(c)

\* The length of the interval of c is its subtree height.
SpanIsHeight(ns, c) ==
    c.span = Px(calculateRadialMindMapTreeHeight(ns, c.node))

\* C23 (as stated): in every layout the drawn children of a node are allotted
\* intervals of their subtree heights around their anchors, in source order
\* from top to bottom with the gap between neighbours, the block centred on
\* the parent's anchor; so the intervals of siblings are pairwise disjoint
\* and the drawn descendants of a child lie inside its interval.
C23_SiblingsStacked ==
    \A i \in Instances :
        Rendered(i) =>
            LET bs == Boxes(i)
            IN  /\ ShowsLastRender(i)
                /\ \A d \in 1..Len(bs) :
                      LET p == bs[d]
                      IN  /\ Stacked(ChildBoxes(bs, p.node), p)
                          /\ p.side # "root" =>
                                /\ SpanIsHeight(root[i].nodes, p)
                                /\ Encloses(root[i], bs, p)

\* C23 (amended): the same for the children of a node that are drawn on one
\* side of it.  In radial mode the children of the root form two blocks, the
\* right one and the left one, each stacked and centred on the root's anchor
\* by itself.
C23_SiblingsStackedPerSide ==
    \A i \in Instances :
        Rendered(i) =>
            LET bs == Boxes(i)
            IN  /\ ShowsLastRender(i)
                /\ \A d \in 1..Len(bs) :
                      LET p  == bs[d]
                          cs == ChildBoxes(bs, p.node)
                      IN  /\ Stacked(ChildBoxesOn(bs, p.node, "right"), p)
                          /\ Stacked(ChildBoxesOn(bs, p.node, "left"), p)
                          /\ p.side # "root" =>
                                /\ SpanIsHeight(root[i].nodes, p)
                                /\ Encloses(root[i], bs, p)
                                /\ \A c \in 1..Len(cs) : cs[c].side = p.side

\* A radial drawing with a child of the root on either side, their intervals
\* overlapping, and a drawn grandchild.
C23_Witness ==
    \E i \in Instances :
        /\ Rendered(i)
        /\ renderMode[i] = "clockwise"
        /\ ShowsLastRender(i)
        /\ LET bs == Boxes(i)
           IN  \E a, b, g \in 1..Len(bs) :
                   /\ bs[a].parent = root[i].root /\ bs[a].side = "right"
                   /\ bs[b].parent = root[i].root /\ bs[b].side = "left"
                   /\ Top(bs[b]) < Bottom(bs[a])
                   /\ Top(bs[a]) < Bottom(bs[b])
                   /\ bs[g].parent = bs[a].node

---------------------------------------------------------------------------
(* The two sides of the radial layout *)

\* The root child under which the drawn node b lies (b itself when it is a
\* child of the root).
RECURSIVE RootChildAbove(_, _)
RootChildAbove(t, k) ==
    IF t.nodes[k].parent = t.root THEN k ELSE RootChildAbove(t, t.nodes[k].parent)

\* The position of the root child k among the children of the root.
PositionAmongRootChildren(t, k) ==
    CHOOSE c \in 1..Len(Children(t.nodes, t.root)) : Children(t.nodes, t.root)[c] = k

\* C24: in radial mode with n root children, the first ceil(n/2) children
\* and their drawn descendants lie strictly to the right of the root box, the
\* others and their drawn descendants strictly to the left; each side keeps
\* the source order from top to bottom; every deeper node lies farther from
\* the root than its parent, on the same side.
C24_RadialSides ==
    \A i \in Instances :
        (Rendered(i) /\ renderMode[i] = "clockwise") =>
            LET t        == root[i]
                bs       == Boxes(i)
                rootBox  == bs[1]
                n        == Len(Children(t.nodes, t.root))
            IN  /\ ShowsLastRender(i)
                /\ rootBox.node = t.root
                /\ \A d \in 2..Len(bs) :
                      LET b      == bs[d]
                          first  == PositionAmongRootChildren(t, RootChildAbove(t, b.node))
                                        <= CeilHalf(n)
                          parent == BoxOf(bs, b.parent)
                      IN  /\ first => /\ b.side = "right"
                                      /\ b.x > rootBox.x + rootBox.width
                                      /\ b.parent # t.root => b.x > parent.x + parent.width
                          /\ ~first => /\ b.side = "left"
                                       /\ b.x + b.width < rootBox.x
                                       /\ b.parent # t.root => b.x + b.width < parent.x
                          /\ b.width > 0
                /\ \A side \in {"right", "left"} :
                      LET cs == ChildBoxesOn(bs, t.root, side)
                      IN  \A a, b \in 1..Len(cs) :
                              a < b => /\ cs[a].y < cs[b].y
                                       /\ PositionAmongRootChildren(t, cs[a].node)
                                              < PositionAmongRootChildren(t, cs[b].node)

\* A radial drawing of a root with three children: two on the right, one on
\* the left.
C24_Witness ==
    \E i \in Instances :
        /\ Rendered(i)
        /\ renderMode[i] = "clockwise"
        /\ Len(Children(root[i].nodes, root[i].root)) = 3
        /\ ShowsLastRender(i)
        /\ Len(ChildBoxesOn(Boxes(i), root[i].root, "right")) = 2
        /\ Len(ChildBoxesOn(Boxes(i), root[i].root, "left")) = 1

\* A radial drawing with a grandchild on the left.
C24_WitnessDeeper ==
    \E i \in Instances :
        /\ Rendered(i)
        /\ renderMode[i] = "clockwise"
        /\ \E d \in 1..Len(view[i].drawing.nodes) :
              /\ view[i].drawing.nodes[d].side = "left"
              /\ view[i].drawing.nodes[d].depth = 2

---------------------------------------------------------------------------
(* Collapse indicators *)

\* The indicators drawn for the tree node k.
CirclesOf(i, k) ==
    SelectSeq(view[i].drawing.circles, LAMBDA c : c.node = k)

\* C25: a drawn node other than the root has a collapse indicator exactly
\* when it has a child; the indicator of a collapsed node is always visible
\* and shows the number of direct children, that of an expanded node shows a
\* dash and is visible only while hovered; a childless node has none.
C25_Indicators ==
    \A i \in Instances :
        Rendered(i) =>
            /\ \A d \in 2..Len(view[i].drawing.nodes) :
                  LET k        == view[i].drawing.nodes[d].node
                      n        == root[i].nodes[k]
                      children == Children(root[i].nodes, k)
                      circles  == CirclesOf(i, k)
                  IN  /\ Len(children) = 0 => circles = <<>>
                      /\ Len(children) > 0 =>
                            /\ Len(circles) = 1
                            /\ n.collapsed =>
                                  /\ circles[1].text = ToString(Len(children))
                                  /\ circles[1].visible
                                  /\ ~circles[1].hover
                            /\ ~n.collapsed =>
                                  /\ circles[1].text = "-"
                                  /\ ~circles[1].visible
                                  /\ circles[1].hover
            /\ \A c \in 1..Len(view[i].drawing.circles) :
                  \E d \in 2..Len(view[i].drawing.nodes) :
                      view[i].drawing.nodes[d].node = view[i].drawing.circles[c].node

\* A drawing with a collapsed node that shows its one child as "1", and a
\* childless node.
C25_Witness ==
    \E i \in Instances :
        /\ Rendered(i)
        /\ \E c \in 1..Len(view[i].drawing.circles) :
              /\ view[i].drawing.circles[c].text = "1"
              /\ root[i].nodes[view[i].drawing.circles[c].node].collapsed
        /\ \E d \in 2..Len(view[i].drawing.nodes) :
              Len(Children(root[i].nodes, view[i].drawing.nodes[d].node)) = 0

---------------------------------------------------------------------------
(* One node per line, in source order *)

\* The line of the title of List Mode: the first non-blank line when it
\* starts with '#', 0 when there is none.
TitleLine == IF HasTitleLine THEN FirstNonBlank ELSE 0

\* The lines that make a node in List Mode, title being the line of the
\* title.
ListLinesOf(lines, title) ==
    {l \in (title + 1)..Len(lines) :
        ~IsBlank(lines[l]) /\ ~StartsWithMarkers(lines[l], 1)}

\* The lines of the text that make a node: in Heading Mode the heading
\* lines, in List Mode the non-blank lines after the title that do not start
\* with '#'.
NodeLineNumbers(mode) ==
    IF mode = "headings" THEN HeadingLineNumbers
    ELSE ListLinesOf(InputLines, TitleLine)

\* The tree t parsed from the text in the mode is one finite tree, every
\* node line is the line of exactly one of its nodes, and its pre-order
\* lists every node once, by increasing source line.
OneTreeInSourceOrder(t, mode) ==
    LET p         == PreOrder(t.nodes, t.root)
        inTree    == {p[x] : x \in 1..Len(p)}
        nodeLines == NodeLineNumbers(mode)
    IN  /\ t.root \in 1..Len(t.nodes)
        /\ \A k \in 1..Len(t.nodes) : t.nodes[k].parent < k
        /\ inTree = {k \in 1..Len(t.nodes) : k >= t.root}
        /\ \A l \in nodeLines :
              Cardinality({k \in inTree : t.nodes[k].line = l}) = 1
        /\ \A k \in inTree :
              t.nodes[k].line \in nodeLines \/ (k = 1 /\ mode = "list")
        /\ \A x \in 1..(Len(p) - 1) :
              t.nodes[p[x]].line < t.nodes[p[x + 1]].line

\* C26: every parse result is one finite tree in which each heading line
\* (Heading Mode) or each non-blank line after the title that is not a
\* heading (List Mode) gives exactly one node, no node appears twice, and
\* the pre-order traversal with children in list order visits the nodes in
\* source-line order; for the exported parser and for the renderer's own.
C26_OneNodePerLineInOrder ==
    /\ parsedDone => OneTreeInSourceOrder(parsed, SelectMode(InputLines))
    /\ loaded["A"] =>
          OneTreeInSourceOrder(root["A"], MindMapRenderer_SelectMode(InputLines))

\* A parse of three node lines in which the third node is not a child of
\* the second, and one of a text with a line that makes no node.
C26_Witness ==
    /\ parsedDone
    /\ loaded["A"]
    /\ \/ /\ Len(PreOrder(parsed.nodes, parsed.root)) = 3
          /\ parsed.nodes[3].parent # 2
          /\ parsed.nodes[2].parent # 0
       \/ /\ SelectMode(InputLines) = "list"
          /\ \E l \in 1..Len(InputLines) :
                ~IsBlank(InputLines[l]) /\ l \notin ListLinesOf(InputLines, TitleLine)
          /\ Len(parsed.nodes) >= 3

---------------------------------------------------------------------------
(* Expand all and collapse all *)

\* The step has left the store entry of the id as it was.
SameEntry(id) ==
    /\ (id \in DOMAIN store') = (id \in DOMAIN store)
    /\ id \in DOMAIN store => store'[id] = store[id]

\* The step has set every node of the tree of instance i that has children,
\* and the store entry of its id, to the value v, and has left the childless
\* nodes and the store entries of their ids as they were.
AllSetTo(i, v) ==
    /\ Len(root'[i].nodes) = Len(root[i].nodes)
    /\ \A k \in TreeNodes(root[i]) :
          LET n == root[i].nodes[k]
          IN  IF HasChildren(root[i].nodes, k)
              THEN /\ root'[i].nodes[k] = [n EXCEPT !.collapsed = v]
                   /\ n.id \in DOMAIN store'
                   /\ store'[n.id] = v
              ELSE /\ root'[i].nodes[k] = n
                   /\ SameEntry(n.id)

\* C27: collapseAll sets collapsed = true, and the store entry to true, on
\* every node of the tree that has children; expandAll sets both to false,
\* and every node of the tree is drawn by the refresh that ends it; neither
\* touches a childless node.
C27_ExpandAndCollapseAll ==
    [][\A i \in Instances :
          /\ (steps' = steps + 1 /\ CollapseAll(i)) => AllSetTo(i, TRUE)
          /\ (steps' = steps + 1 /\ ExpandAll(i)) =>
                /\ AllSetTo(i, FALSE)
                /\ {view'[i].drawing.nodes[d].node :
                       d \in 1..Len(view'[i].drawing.nodes)} = TreeNodes(root[i])]_vars

\* After an expandAll on a tree with a nested parent: the store holds false
\* for the root, which no toggle can write, and for a node below it, and
\* the tree has a childless node.
C27_Witness ==
    \E i \in Instances :
        /\ Rendered(i)
        /\ root[i].nodes[root[i].root].id \in DOMAIN store
        /\ ~store[root[i].nodes[root[i].root].id]
        /\ \E k \in TreeNodes(root[i]) \ {root[i].root} :
              /\ HasChildren(root[i].nodes, k)
              /\ root[i].nodes[k].id \in DOMAIN store
              /\ ~store[root[i].nodes[k].id]
              /\ ~root[i].nodes[k].collapsed
        /\ DrawnNodes(i) = TreeNodes(root[i])
        /\ \E k \in TreeNodes(root[i]) : ~HasChildren(root[i].nodes, k)

---------------------------------------------------------------------------
(* Collapsed flags of childless nodes *)

\* The childless nodes of the tree t that have collapsed = true.
CollapsedLeaves(t) ==
    {k \in TreeNodes(t) : ~HasChildren(t.nodes, k) /\ t.nodes[k].collapsed}

\* C28 (as claimed): in every state reached by parses against the shared
\* store, toggles, expandAll and collapseAll, no node without children has
\* collapsed = true.
C28_NoCollapsedLeaf ==
    \A i \in Instances : CollapsedLeaves(root[i]) = {}

\* C28 (amended): a toggle, an expandAll or a collapseAll never changes a
\* childless node, and the instance that runs it (the one refreshed by the
\* step) never writes the store under the id of such a node; a parse gives a
\* childless node collapsed = true exactly when the store maps its id to
\* true.
C28_LeafCollapsedOnlyByParse ==
    [][\A i \in Instances :
          IF loaded'[i] /\ ~loaded[i]
          THEN \A k \in TreeNodes(root'[i]) :
                  ~HasChildren(root'[i].nodes, k) =>
                      root'[i].nodes[k].collapsed
                          = GetOrFalse(store, root'[i].nodes[k].id)
          ELSE \A k \in TreeNodes(root[i]) :
                  (~HasChildren(root[i].nodes, k) /\ root'[i] # NullTree) =>
                      /\ root'[i].nodes[k] = root[i].nodes[k]
                      /\ refreshed'[i] # refreshed[i] =>
                            SameEntry(root[i].nodes[k].id)]_vars

\* A parse has given a childless node collapsed = true, and a step of
\* expandAll has then left it so.
C28_Witness ==
    \E i \in Instances :
        /\ Rendered(i)
        /\ CollapsedLeaves(root[i]) # {}
        /\ refreshed[i].n > 0
        /\ root[i].nodes[root[i].root].id \in DOMAIN store
        /\ ~store[root[i].nodes[root[i].root].id]

---------------------------------------------------------------------------
(* The two copies of the parser *)

\* The ids the parser gives to the nodes of the text.
IdsOf(text) ==
    LET t == parseMarkdownList(text, <<>>)
    IN  {t.nodes[k].id : k \in 1..Len(t.nodes)}

\* The contents of the store tried for the text: the empty store, the stores
\* that hold true, or false, for all the ids of its nodes, and the stores
\* that hold true for one of them.
StoresFor(text) ==
    LET ids == IdsOf(text)
    IN  {[id \in ids |-> v] : v \in BOOLEAN}
            \cup {[id \in S |-> TRUE] : S \in {{}} \cup {{id} : id \in ids}}

\* C29: the renderer's private parser and the exported parser select the
\* same mode and return the same tree (shape, ids, texts, notes, collapsed
\* flags) for every text, under the empty store, under the stores that hold
\* true, or false, for all the ids of the text, and under those that hold
\* true for one of them.
C29_ParsersEquivalent ==
    /\ (~parsedDone /\ ~loaded["A"]) =>
          /\ MindMapRenderer_SelectMode(InputLines) = SelectMode(InputLines)
          /\ \A m \in StoresFor(source["A"]) :
                MindMapRenderer_parseMarkdownList(source["A"], m)
                    = parseMarkdownList(source["A"], m)
    /\ (parsedDone /\ loaded["A"]) => parsed = root["A"]

\* Both parsers have parsed a text of three nodes, one of them with a note
\* or below another.
C29_Witness ==
    /\ parsedDone
    /\ loaded["A"]
    /\ Len(parsed.nodes) >= 3
    /\ \E k \in 1..Len(parsed.nodes) :
          parsed.nodes[k].hasNote \/ parsed.nodes[k].parent > 1

---------------------------------------------------------------------------
(* Fullscreen round trip *)

\* The placement kept in savedScale, savedTranslateX and savedTranslateY.
SavedPlacement(t) == <<t.savedScale, t.savedTranslateX, t.savedTranslateY>>

=============================================================================
